---- MODULE Spec2Model ----
(***************************************************************************)
(* Claim verification pipeline of the TruthPulse server:                   *)
(*   src/server/src/graph/workflow.py      the detect -> verify graph      *)
(*   src/server/src/graph/state.py         the state record and helpers    *)
(*   src/server/src/agents/detector_agent.py   DetectorAgent.detect        *)
(*   src/server/src/agents/verifier_agent.py   VerifierAgent.verify_claim  *)
(*                                                                         *)
(* Python values are modelled as follows.  A str is the sequence of its    *)
(* characters.  None is the record None; a value that may be None or a     *)
(* str / list is wrapped (Str, List) so that it stays comparable with      *)
(* None.  A dict is a function from its keys; {**d, k: v} is Update.       *)
(* Confidences are integers: units of 1/10000 while parsed, thousandths    *)
(* after round(confidence, 3).                                             *)
(***************************************************************************)
EXTENDS Integers, Sequences, FiniteSets, TLC

VARIABLES
    entry,          \* who called: "workflow" (run_verification_workflow) or "direct" (verifier_agent.verify_claim)
    claim,          \* the claim argument of the request: Str(chars) or None
    pc,             \* position of the request
    state,          \* the VerificationState flowing through the graph
    step,           \* supersteps the graph has executed
    final,          \* what run_verification_workflow returned (None before it returns)
    calls,          \* log of node executions and collaborator calls, in order
    groq_client,    \* module global of verifier_agent.py: Client or None
    faiss_manager,  \* module global of faiss_manager.py: Manager or None
    qi,             \* index in all_queries of the next similarity search
    evidence,       \* local evidence of VerifierAgent.verify_claim
    seen,           \* local seen of VerifierAgent.verify_claim
    output,         \* what the reasoning call did: None while not made, else Raised, NoChoices, NoContent or Text
    result,         \* the VerificationResult returned by VerifierAgent.verify_claim, or None
    retrieved,      \* history: what each retrieval call did, in call order (kept where a property reads it)
    hashseed,       \* the hash seed of the running interpreter (it fixes the iteration order of a set of str)
    detections,     \* history: the outcomes of the calls of detector_agent.detect, with the seed of each
    scored,         \* the scores the scoring methods gave for a combination of signals, or None
    heap,           \* the dict and list objects of the interpreter, by address (calls of the transition functions)
    call,           \* the last call of a transition function: its argument, what it returned, the heap before it
    tts_engine,     \* VoiceManager.tts_engine: Engine or None
    is_speaking,    \* VoiceManager.is_speaking
    vpc,            \* position of each thread in VoiceManager.speak
    returned,       \* what speak returned to each thread: None while it has not returned
    explained       \* the outcome of explainer_agent.explain on the VerificationResult, or None

\* the variables of the calls of the transition functions, of the voice
\* manager and of the explainer
frame_vars == <<heap, call>>
voice_vars == <<tts_engine, is_speaking, vpc, returned>>

vars == <<entry, claim, pc, state, step, final, calls, groq_client, faiss_manager,
          qi, evidence, seen, output, result, retrieved, hashseed, detections, scored,
          heap, call, tts_engine, is_speaking, vpc, returned, explained>>

\* the variables the verification request leaves alone
detector_vars == <<hashseed, detections, scored, frame_vars, voice_vars, explained>>

---------------------------------------------------------------------------
(* Python values *)

None == [py |-> "None"]
Str(s) == [str |-> s]
List(l) == [list |-> l]

\* {**d, **ov}: the keys of both, ov winning
Update(d, ov) == ov @@ d

\* no transition function was called, no thread has entered speak
NoCalls == heap = <<>> /\ call = [py |-> "None"]
NoVoice ==
    /\ tts_engine = [py |-> "None"] /\ is_speaking = FALSE
    /\ vpc = <<>> /\ returned = <<>>

\* bounds of the model: the longest claim over ClaimChars, the supersteps the
\* graph may run before invoke raises (the graph library's limit, 25 unless
\* configured), and the lines of a reasoning output
MaxClaimLen == 9
RecursionLimit == 25
MaxOutputLines == 3
BulkLen == 12
MaxRuns == 2

SeqsUpTo(S, n) == UNION {[1..k -> S] : k \in 0..n}

---------------------------------------------------------------------------
(* Strings *)

IsSpace(c) == c \in {" ", "\t", "\n"}

RECURSIVE LStrip(_)
LStrip(s) == IF s # <<>> /\ IsSpace(Head(s)) THEN LStrip(Tail(s)) ELSE s

RECURSIVE RStrip(_)
RStrip(s) == IF s # <<>> /\ IsSpace(s[Len(s)]) THEN RStrip(SubSeq(s, 1, Len(s) - 1)) ELSE s

\* str.strip()
Strip(s) == RStrip(LStrip(s))

UpperChars == <<"A","B","C","D","E","F","G","H","I","J","K","L","M","N","O","P","Q","R","S","T","U","V","W","X","Y","Z">>
LowerChars == <<"a","b","c","d","e","f","g","h","i","j","k","l","m","n","o","p","q","r","s","t","u","v","w","x","y","z">>

LowerChar(c) ==
    IF \E i \in 1..26 : UpperChars[i] = c
    THEN LowerChars[CHOOSE i \in 1..26 : UpperChars[i] = c]
    ELSE c

\* str.lower()
Lower(s) == [i \in 1..Len(s) |-> LowerChar(s[i])]

\* Two letters outside ASCII that a pattern compiled with re.I takes for an
\* ASCII letter: U+017F (long s) for "s" and U+0131 (dotless i) for "i".
\* str.lower() leaves both as they are.
LongS == "U+017F"
DotlessI == "U+0131"

\* the letter a character stands for under re.I
FoldChar(c) == IF c = LongS THEN "s" ELSE IF c = DotlessI THEN "i" ELSE LowerChar(c)
Fold(s) == [i \in 1..Len(s) |-> FoldChar(s[i])]

Min(a, b) == IF a < b THEN a ELSE b
MinOf(S) == CHOOSE x \in S : \A y \in S : x <= y

\* t in s, for strings
Contains(s, t) == \E i \in 1..(Len(s) - Len(t) + 1) : SubSeq(s, i, i + Len(t) - 1) = t

---------------------------------------------------------------------------
(* Regular expressions (module re): a pattern is a tree, and Ends gives the
   positions where a match of the pattern that starts at i can end, in the
   order in which the backtracking matcher tries them; the match re finds is
   the first of them. *)

Digits == <<"0","1","2","3","4","5","6","7","8","9">>
IsDigit(c) == \E d \in 1..10 : Digits[d] = c
DigitVal(c) == (CHOOSE d \in 1..10 : Digits[d] = c) - 1

UpperSet == {UpperChars[i] : i \in 1..26}      \* [A-Z]
LowerSet == {LowerChars[i] : i \in 1..26}      \* [a-z]
DigitSet == {Digits[i] : i \in 1..10}          \* \d
SpaceSet == {" ", "\t", "\n"}                   \* \s
WordSet == UpperSet \cup LowerSet \cup DigitSet \cup {"_", LongS, DotlessI}    \* \w

Lit(t) == [t |-> "lit", s |-> t]
Cls(cs) == [t |-> "cls", cs |-> cs]
Cat(rs) == [t |-> "cat", rs |-> rs]
Alt(rs) == [t |-> "alt", rs |-> rs]
Rep(r, min, max) == [t |-> "rep", r |-> r, min |-> min, max |-> max]
WB == [t |-> "wb"]

Unbounded == 1000000
Star(r) == Rep(r, 0, Unbounded)
Plus(r) == Rep(r, 1, Unbounded)
Opt(r) == Rep(r, 0, 1)

IsWordAt(s, i) == i >= 1 /\ i <= Len(s) /\ s[i] \in WordSet

\* \b at position i: between s[i-1] and s[i]
Boundary(s, i) == IsWordAt(s, i - 1) # IsWordAt(s, i)

RECURSIVE Ends(_, _, _), EndsFrom(_, _, _), EndsCat(_, _, _, _), EndsAlt(_, _, _, _),
          EndsRep(_, _, _, _), EndsRepFrom(_, _, _, _)

Ends(r, s, i) ==
    CASE r.t = "lit" -> IF i + Len(r.s) - 1 <= Len(s) /\ SubSeq(s, i, i + Len(r.s) - 1) = r.s
                        THEN <<i + Len(r.s)>> ELSE <<>>
      [] r.t = "cls" -> IF i <= Len(s) /\ s[i] \in r.cs THEN <<i + 1>> ELSE <<>>
      [] r.t = "wb"  -> IF Boundary(s, i) THEN <<i>> ELSE <<>>
      [] r.t = "cat" -> EndsCat(r.rs, 1, s, <<i>>)
      [] r.t = "alt" -> EndsAlt(r.rs, 1, s, i)
      [] r.t = "rep" -> EndsRep(r, s, i, 0)

\* the ends of r from each of the starts, in the order of the starts
EndsFrom(r, s, starts) ==
    IF starts = <<>> THEN <<>>
    ELSE Ends(r, s, Head(starts)) \o EndsFrom(r, s, Tail(starts))

EndsCat(rs, k, s, starts) ==
    IF k > Len(rs) THEN starts
    ELSE EndsCat(rs, k + 1, s, EndsFrom(rs[k], s, starts))

EndsAlt(rs, k, s, i) ==
    IF k > Len(rs) THEN <<>>
    ELSE Ends(rs[k], s, i) \o EndsAlt(rs, k + 1, s, i)

\* greedy repetition, n turns done: one more turn first, then stopping here
EndsRep(r, s, i, n) ==
    (IF n < r.max
     THEN EndsRepFrom(r, s, SelectSeq(Ends(r.r, s, i), LAMBDA e : e > i), n + 1)
     ELSE <<>>)
    \o (IF n >= r.min THEN <<i>> ELSE <<>>)

EndsRepFrom(r, s, starts, n) ==
    IF starts = <<>> THEN <<>>
    ELSE EndsRep(r, s, Head(starts), n) \o EndsRepFrom(r, s, Tail(starts), n)

\* a match: where it starts and ends (the text is s[start .. end - 1])
Span(a, b) == [start |-> a, end |-> b]
Group(s, m) == SubSeq(s, m.start, m.end - 1)

\* re.search(r, s) from position i on: the span of group 0 of the leftmost
\* match, or None
FirstSpan(r, s, starts) ==
    IF starts = {} THEN None ELSE Span(MinOf(starts), Head(Ends(r, s, MinOf(starts))))
SearchFrom(r, s, i) == FirstSpan(r, s, {j \in i..(Len(s) + 1) : Ends(r, s, j) # <<>>})

\* re.finditer(r, s): the matches from left to right, none overlapping
RECURSIVE FindIter(_, _, _)
Following(r, s, m) ==
    IF m = None THEN <<>>
    ELSE <<m>> \o FindIter(r, s, IF m.end > m.start THEN m.end ELSE m.end + 1)
FindIter(r, s, i) == Following(r, s, SearchFrom(r, s, i))

\* the first g among the ends of grp from p after which post matches, or 0
RECURSIVE FirstWithPost(_, _, _)
FirstWithPost(post, s, gs) ==
    IF gs = <<>> THEN 0
    ELSE IF Ends(post, s, Head(gs)) # <<>> THEN Head(gs)
    ELSE FirstWithPost(post, s, Tail(gs))

\* the span of grp in the first way to match pre, grp, post from one of ps
RECURSIVE FirstGroup(_, _, _, _)
FirstGroup(grp, post, s, ps) ==
    IF ps = <<>> THEN None
    ELSE LET g == FirstWithPost(post, s, Ends(grp, s, Head(ps)))
         IN  IF g # 0 THEN Span(Head(ps), g) ELSE FirstGroup(grp, post, s, Tail(ps))

\* re.search of the pattern pre(grp)post: the span of group 1 of the leftmost
\* match, or None
FirstGroupSpan(pre, grp, post, s, starts) ==
    IF starts = {} THEN None ELSE FirstGroup(grp, post, s, Ends(pre, s, MinOf(starts)))
SearchGroup(pre, grp, post, s, i) ==
    FirstGroupSpan(pre, grp, post, s,
                   {j \in i..(Len(s) + 1) : FirstGroup(grp, post, s, Ends(pre, s, j)) # None})

---------------------------------------------------------------------------
(* The claims a request may carry *)

ClaimChars == {" ", "a"}

\* claims that trigger the context-specific queries of VerifierAgent.verify_claim
PlainClaim == <<"a","a","a","a","a","a","a","a","a","a">>
RegionClaim == <<"k","e","r","a","l","a"," ","n","e","w","s">>
BoardClaim == <<"C","B","S","E"," ","U","P"," ","B","O","A","R","D"," ","J","E","E">>
NamedClaims == {PlainClaim, RegionClaim, BoardClaim}

\* every str over ClaimChars up to MaxClaimLen, the named claims, and a missing claim
Claims == {Str(s) : s \in SeqsUpTo(ClaimChars, MaxClaimLen) \cup NamedClaims} \cup {None}

---------------------------------------------------------------------------
(* detector_agent.py *)

MinClaimLen == 8

\* clean_claim = (claim or "").strip()
clean_claim(c) == Strip(IF c = None THEN <<>> ELSE c.str)

ValueError == "Claim must be at least 8 characters long"

\* DOMAIN_KEYWORDS, in the order of the dict
DOMAIN_KEYWORDS ==
    <<
      [domain |-> "health", keywords |-> {
          <<"c","o","v","i","d">>, <<"d","o","c","t","o","r">>, <<"f","e","v","e","r">>,
          <<"h","o","s","p","i","t","a","l">>, <<"i","n","f","e","c","t","i","o","n">>,
          <<"m","a","s","k">>, <<"o","u","t","b","r","e","a","k">>,
          <<"p","a","n","d","e","m","i","c">>, <<"p","a","t","i","e","n","t">>,
          <<"s","y","m","p","t","o","m">>, <<"t","r","e","a","t","m","e","n","t">>,
          <<"v","a","c","c","i","n","e">>, <<"v","i","r","u","s">> }],
      [domain |-> "politics", keywords |-> {
          <<"a","m","b","a","s","s","a","d","o","r">>, <<"b","i","l","l">>,
          <<"c","a","m","p","a","i","g","n">>, <<"d","i","p","l","o","m","a","t">>,
          <<"e","l","e","c","t","i","o","n">>, <<"g","o","v","e","r","n","m","e","n","t">>,
          <<"l","a","w">>, <<"m","i","n","i","s","t","e","r">>,
          <<"p","a","r","l","i","a","m","e","n","t">>, <<"p","o","l","i","c","y">>,
          <<"p","r","e","s","i","d","e","n","t">>, <<"v","o","t","e">> }],
      [domain |-> "travel", keywords |-> {
          <<"a","i","r","l","i","n","e">>, <<"a","i","r","p","o","r","t">>,
          <<"b","o","r","d","e","r">>, <<"c","r","u","i","s","e">>,
          <<"f","l","i","g","h","t">>, <<"l","u","g","g","a","g","e">>,
          <<"p","a","s","s","p","o","r","t">>, <<"r","a","i","l","w","a","y">>,
          <<"r","u","n","w","a","y">>, <<"t","o","u","r","i","s","m">>,
          <<"t","r","a","i","n">>, <<"v","i","s","a">> }],
      [domain |-> "disaster", keywords |-> {
          <<"c","y","c","l","o","n","e">>, <<"d","a","m","a","g","e">>,
          <<"e","a","r","t","h","q","u","a","k","e">>,
          <<"e","v","a","c","u","a","t","i","o","n">>, <<"f","l","o","o","d">>,
          <<"l","a","n","d","s","l","i","d","e">>, <<"r","e","l","i","e","f">>,
          <<"r","e","s","c","u","e">>, <<"s","t","o","r","m">>,
          <<"t","s","u","n","a","m","i">>, <<"w","i","l","d","f","i","r","e">> }],
      [domain |-> "finance", keywords |-> {
          <<"b","a","n","k">>, <<"b","i","l","l","i","o","n">>, <<"b","u","d","g","e","t">>,
          <<"c","r","o","r","e">>, <<"d","o","l","l","a","r">>,
          <<"e","c","o","n","o","m","y">>, <<"i","n","f","l","a","t","i","o","n">>,
          <<"i","n","t","e","r","e","s","t">>, <<"i","n","v","e","s","t","m","e","n","t">>,
          <<"m","a","r","k","e","t">>, <<"r","u","p","e","e">>, <<"s","t","o","c","k">> }],
      [domain |-> "technology", keywords |-> {
          <<"a","i">>, <<"a","p","p">>, <<"c","h","i","p">>, <<"c","y","b","e","r">>,
          <<"d","a","t","a"," ","l","e","a","k">>, <<"g","a","d","g","e","t">>,
          <<"h","a","c","k">>, <<"i","n","t","e","r","n","e","t">>,
          <<"m","a","l","w","a","r","e">>, <<"n","e","t","w","o","r","k">>,
          <<"s","e","r","v","e","r">>, <<"s","o","f","t","w","a","r","e">> }],
      [domain |-> "general", keywords |-> {
 }]
    >>

EMERGENCY_WORDS ==
    {
      <<"a","l","e","r","t">>, <<"b","r","e","a","k","i","n","g">>, <<"c","h","a","o","s">>,
      <<"c","o","l","l","a","p","s","e">>, <<"c","r","i","s","i","s">>,
      <<"d","i","s","a","s","t","e","r">>, <<"e","m","e","r","g","e","n","c","y">>,
      <<"f","a","i","l","u","r","e">>, <<"p","a","n","i","c">>, <<"u","r","g","e","n","t">>,
      <<"w","a","r","n","i","n","g">> }

ACTION_PATTERNS ==
    <<
      <<"f","l","i","g","h","t"," ","c","a","n","c","e","l","l","e","d">>,
      <<"f","l","i","g","h","t"," ","c","a","n","c","e","l","e","d">>,
      <<"a","i","r","p","o","r","t"," ","c","l","o","s","e","d">>,
      <<"a","i","r","p","o","r","t"," ","s","h","u","t","d","o","w","n">>,
      <<"s","c","h","o","o","l"," ","c","l","o","s","e","d">>,
      <<"l","o","c","k","d","o","w","n">>,
      <<"v","i","r","u","s"," ","o","u","t","b","r","e","a","k">>,
      <<"c","a","s","e","s"," ","r","i","s","i","n","g">>,
      <<"e","x","p","l","o","s","i","v","e"," ","s","p","r","e","a","d">>,
      <<"p","o","w","e","r"," ","o","u","t","a","g","e">>,
      <<"i","n","t","e","r","n","e","t"," ","s","h","u","t","d","o","w","n">>,
      <<"b","a","n","k"," ","c","l","o","s","e","d">>,
      <<"m","a","r","k","e","t"," ","c","r","a","s","h">>,
      <<"t","r","a","i","n"," ","d","e","r","a","i","l","e","d">>,
      <<"b","r","i","d","g","e"," ","c","o","l","l","a","p","s","e","d">> >>

STOPWORDS ==
    {
      <<"a","b","o","u","t">>, <<"a","c","c","o","r","d","i","n","g">>,
      <<"a","f","t","e","r">>, <<"a","n","d">>, <<"b","e","e","n">>,
      <<"b","e","f","o","r","e">>, <<"c","l","a","i","m">>, <<"c","l","a","i","m","s">>,
      <<"f","r","o","m">>, <<"h","a","v","e">>, <<"i","n","t","o">>, <<"n","e","w","s">>,
      <<"o","v","e","r">>, <<"r","e","p","o","r","t","e","d">>,
      <<"r","e","p","o","r","t","s">>, <<"s","a","i","d">>, <<"s","a","y","s">>,
      <<"s","o","u","r","c","e">>, <<"t","h","a","t">>, <<"t","h","e">>, <<"t","h","i","s">>,
      <<"t","o","d","a","y">>, <<"w","i","l","l">>, <<"w","i","t","h">> }

\* SUPPORT_EVIDENCE_INDICATORS, in the order of the dict
SUPPORT_EVIDENCE_INDICATORS ==
    <<
      [type |-> "official", indicators |-> {
          <<"a","g","e","n","c","y">>, <<"a","u","t","h","o","r","i","t","i","e","s">>,
          <<"d","e","p","a","r","t","m","e","n","t">>,
          <<"g","o","v","e","r","n","m","e","n","t">>, <<"m","i","n","i","s","t","r","y">>,
          <<"o","f","f","i","c","i","a","l">>,
          <<"p","r","e","s","s"," ","r","e","l","e","a","s","e">>,
          <<"s","p","o","k","e","s","p","e","r","s","o","n">>,
          <<"s","t","a","t","e","m","e","n","t">> }],
      [type |-> "statistical", indicators |-> {
          <<"a","n","a","l","y","s","i","s">>, <<"d","a","t","a">>,
          <<"f","i","g","u","r","e","s">>, <<"m","e","t","r","i","c","s">>,
          <<"n","u","m","b","e","r","s">>, <<"r","e","p","o","r","t">>,
          <<"r","e","s","e","a","r","c","h">>, <<"s","t","a","t","i","s","t","i","c","s">>,
          <<"s","t","u","d","y">>, <<"s","u","r","v","e","y">> }],
      [type |-> "eyewitness", indicators |-> {
          <<"e","y","e","w","i","t","n","e","s","s">>, <<"f","i","r","s","t","h","a","n","d">>,
          <<"l","o","c","a","l">>, <<"n","e","i","g","h","b","o","r">>,
          <<"o","n"," ","t","h","e"," ","g","r","o","u","n","d">>,
          <<"p","a","s","s","e","r","b","y">>, <<"r","e","s","i","d","e","n","t">>,
          <<"w","i","t","n","e","s","s">> }],
      [type |-> "media", indicators |-> {
          <<"a","c","c","o","r","d","i","n","g"," ","t","o">>,
          <<"b","r","o","a","d","c","a","s","t">>,
          <<"c","o","r","r","e","s","p","o","n","d","e","n","t">>,
          <<"j","o","u","r","n","a","l","i","s","t">>,
          <<"m","e","d","i","a"," ","r","e","p","o","r","t","s">>,
          <<"r","e","p","o","r","t","e","d"," ","b","y">>,
          <<"s","o","u","r","c","e","s"," ","s","a","y">> }],
      [type |-> "expert", indicators |-> {
          <<"a","n","a","l","y","s","t">>, <<"d","o","c","t","o","r">>,
          <<"e","x","p","e","r","t">>, <<"p","r","o","f","e","s","s","o","r">>,
          <<"r","e","s","e","a","r","c","h","e","r">>, <<"s","c","i","e","n","t","i","s","t">>,
          <<"s","p","e","c","i","a","l","i","s","t">> }]
    >>

\* TEMPORAL_INDICATORS, in the order of the dict; each category is a set of
\* str, written here in the order of the source
TEMPORAL_INDICATORS ==
    <<
      [category |-> "immediate", indicators |-> <<
          <<"b","r","e","a","k","i","n","g">>, <<"j","u","s","t"," ","n","o","w">>,
          <<"m","o","m","e","n","t","s"," ","a","g","o">>,
          <<"r","i","g","h","t"," ","n","o","w">>, <<"l","i","v","e">> >>],
      [category |-> "short_term", indicators |-> <<
          <<"t","o","d","a","y">>, <<"t","o","n","i","g","h","t">>,
          <<"t","o","m","o","r","r","o","w">>, <<"y","e","s","t","e","r","d","a","y">>,
          <<"t","h","i","s"," ","m","o","r","n","i","n","g">>,
          <<"t","h","i","s"," ","e","v","e","n","i","n","g">>,
          <<"t","h","i","s"," ","w","e","e","k">>,
          <<"n","e","x","t"," ","f","e","w"," ","h","o","u","r","s">> >>],
      [category |-> "medium_term", indicators |-> <<
          <<"p","a","s","t"," ","2","4"," ","h","o","u","r","s">>,
          <<"p","a","s","t"," ","f","e","w"," ","d","a","y","s">>,
          <<"l","a","s","t"," ","w","e","e","k">>, <<"r","e","c","e","n","t">>,
          <<"t","h","i","s"," ","m","o","n","t","h">>,
          <<"p","a","s","t"," ","m","o","n","t","h">>, <<"n","e","x","t"," ","w","e","e","k">> >>],
      [category |-> "long_term", indicators |-> <<
          <<"p","a","s","t"," ","y","e","a","r">>,
          <<"o","v","e","r"," ","t","h","e"," ","p","a","s","t">>,
          <<"s","e","v","e","r","a","l"," ","m","o","n","t","h","s">>,
          <<"t","h","i","s"," ","y","e","a","r">>, <<"l","a","s","t"," ","y","e","a","r">>,
          <<"c","o","m","i","n","g"," ","m","o","n","t","h","s">> >>]
    >>

\* pieces of the patterns
Digit == Cls(DigitSet)
Space == Cls(SpaceSet)
Decimals == Opt(Cat(<<Lit(<<".">>), Plus(Digit)>>))       \* (?:\.\d+)?
CapWord == Cat(<<Cls(UpperSet), Plus(Cls(LowerSet))>>)     \* [A-Z][a-z]+
CapRun == Cat(<<CapWord, Star(Cat(<<Space, CapWord>>))>>)  \* [A-Z][a-z]+(?:\s[A-Z][a-z]+)*

\* the degree sign, which is no word character
DegreeSign == "U+00B0"

\* r"\b[A-Z][a-z]+(?:\s[A-Z][a-z]+)*\b"
ENTITY_PATTERN == Cat(<<WB, CapRun, WB>>)

QUANTITATIVE_PATTERNS ==
    <<
      \* \b\d+(?:\.\d+)?%\s
      Cat(<<WB, Plus(Digit), Decimals, Lit(<<"%">>), Space>>),
      \* \b\d{1,3}(?:,\d{3})*(?:\.\d+)?\s*(?:billion|million|thousand|crore|lakh)\b
      Cat(<<WB, Rep(Digit, 1, 3), Star(Cat(<<Lit(<<",">>), Rep(Digit, 3, 3)>>)), Decimals, Star(Space),
            Alt(<<Lit(<<"b","i","l","l","i","o","n">>),
                  Lit(<<"m","i","l","l","i","o","n">>),
                  Lit(<<"t","h","o","u","s","a","n","d">>),
                  Lit(<<"c","r","o","r","e">>),
                  Lit(<<"l","a","k","h">>)>>),
            WB>>),
      \* \b\d+\s*(?:cases?|deaths?|patients?|tests?|infections?)\b
      Cat(<<WB, Plus(Digit), Star(Space),
            Alt(<<Cat(<<Lit(<<"c","a","s","e">>), Opt(Lit(<<"s">>))>>),
                  Cat(<<Lit(<<"d","e","a","t","h">>), Opt(Lit(<<"s">>))>>),
                  Cat(<<Lit(<<"p","a","t","i","e","n","t">>), Opt(Lit(<<"s">>))>>),
                  Cat(<<Lit(<<"t","e","s","t">>), Opt(Lit(<<"s">>))>>),
                  Cat(<<Lit(<<"i","n","f","e","c","t","i","o","n">>), Opt(Lit(<<"s">>))>>)>>),
            WB>>),
      \* \b\d+\s*(?:people?|persons?|individuals?|victims?)\b
      Cat(<<WB, Plus(Digit), Star(Space),
            Alt(<<Cat(<<Lit(<<"p","e","o","p","l">>), Opt(Lit(<<"e">>))>>),
                  Cat(<<Lit(<<"p","e","r","s","o","n">>), Opt(Lit(<<"s">>))>>),
                  Cat(<<Lit(<<"i","n","d","i","v","i","d","u","a","l">>), Opt(Lit(<<"s">>))>>),
                  Cat(<<Lit(<<"v","i","c","t","i","m">>), Opt(Lit(<<"s">>))>>)>>),
            WB>>),
      \* \b\d+\s*(?:flights?|trains?|vehicles?|ships?)\b
      Cat(<<WB, Plus(Digit), Star(Space),
            Alt(<<Cat(<<Lit(<<"f","l","i","g","h","t">>), Opt(Lit(<<"s">>))>>),
                  Cat(<<Lit(<<"t","r","a","i","n">>), Opt(Lit(<<"s">>))>>),
                  Cat(<<Lit(<<"v","e","h","i","c","l","e">>), Opt(Lit(<<"s">>))>>),
                  Cat(<<Lit(<<"s","h","i","p">>), Opt(Lit(<<"s">>))>>)>>),
            WB>>),
      \* \b\d+\s*(?:rupees?|dollars?|euros?)\b
      Cat(<<WB, Plus(Digit), Star(Space),
            Alt(<<Cat(<<Lit(<<"r","u","p","e","e">>), Opt(Lit(<<"s">>))>>),
                  Cat(<<Lit(<<"d","o","l","l","a","r">>), Opt(Lit(<<"s">>))>>),
                  Cat(<<Lit(<<"e","u","r","o">>), Opt(Lit(<<"s">>))>>)>>),
            WB>>),
      \* \b\d+(?:\.\d+)?\s*(?:degrees?|(degree sign)C|(degree sign)F)\b
      Cat(<<WB, Plus(Digit), Decimals, Star(Space),
            Alt(<<Cat(<<Lit(<<"d","e","g","r","e","e">>), Opt(Lit(<<"s">>))>>), Lit(<<DegreeSign, "C">>), Lit(<<DegreeSign, "F">>)>>),
            WB>>)
    >>

\* any(w in text for w in words)
AnyIn(text, words) == \E w \in words : Contains(text, w)

\* s.startswith(p)
StartsWith(s, p) == Len(p) <= Len(s) /\ SubSeq(s, 1, Len(p)) = p

\* s.index(t), for t in s (positions from 1)
IndexOf(s, t) == MinOf({i \in 1..(Len(s) - Len(t) + 1) : SubSeq(s, i, i + Len(t) - 1) = t})

\* items[:n]
Slice(items, n) == SubSeq(items, 1, IF Len(items) < n THEN Len(items) ELSE n)

Reverse(items) == [i \in 1..Len(items) |-> items[Len(items) + 1 - i]]

\* the distinct elements of items, each at its first place
RECURSIVE Distinct(_)
Distinct(items) ==
    IF items = <<>> THEN <<>>
    ELSE LET rest == Distinct(SubSeq(items, 1, Len(items) - 1))
             last == items[Len(items)]
         IN  IF \E i \in DOMAIN rest : rest[i] = last THEN rest ELSE Append(rest, last)

\* The order in which a set of str is iterated. It follows the hashes of its
\* elements, which the interpreter's hash seed decides: one and the same
\* within a process, not from one process to the next. The model has two
\* seeds; items holds the elements in the order they were written or added,
\* one seed iterates them in that order and the other in the reverse order.
SetOrder(items, seed) == IF seed = "a" THEN Distinct(items) ELSE Reverse(Distinct(items))

\* _detect_domain: the first domain of the dict one of whose keywords is in the claim
_detect_domain(claim_lower) ==
    LET hits == {k \in DOMAIN DOMAIN_KEYWORDS : AnyIn(claim_lower, DOMAIN_KEYWORDS[k].keywords)}
    IN  IF hits = {} THEN "general" ELSE DOMAIN_KEYWORDS[MinOf(hits)].domain

QuestionStarts == { <<"d","i","d">>, <<"i","s">>, <<"a","r","e">>, <<"c","a","n">>, <<"d","o","e","s">>, <<"h","a","s">> }

_classify_claim(claim_lower) ==
    IF \/ Contains(claim_lower, <<"?">>)
       \/ \E p \in QuestionStarts : StartsWith(claim_lower, p)
    THEN "question"
    ELSE IF \E i \in DOMAIN claim_lower : IsDigit(claim_lower[i])
    THEN "numerical_claim"
    ELSE IF \E k \in DOMAIN ACTION_PATTERNS : Contains(claim_lower, ACTION_PATTERNS[k])
    THEN "action_claim"
    ELSE "narrative_claim"

\* the texts of the matches of a pattern, stripped
Texts(text, ms) == [k \in DOMAIN ms |-> Strip(Group(text, ms[k]))]
MatchTexts(pattern, text) == Texts(text, FindIter(pattern, text, 1))

\* list.sort(key=index): stable, so entities of one index keep the order they came in
RECURSIVE SortByIndex(_)
SortByIndex(pairs) ==
    IF pairs = <<>> THEN <<>>
    ELSE LET rest == SortByIndex(SubSeq(pairs, 1, Len(pairs) - 1))
             last == pairs[Len(pairs)]
             n == Cardinality({i \in DOMAIN rest : rest[i].index <= last.index})
         IN  SubSeq(rest, 1, n) \o <<last>> \o SubSeq(rest, n + 1, Len(rest))

\* _extract_entities: the set of the matches, iterated, sorted by first place, cut to 5
Indexed(c, matches) ==
    [k \in DOMAIN matches |-> [index |-> IndexOf(c, matches[k]), entity |-> matches[k]]]
FirstFive(sorted_entities) ==
    [k \in DOMAIN Slice(sorted_entities, 5) |-> sorted_entities[k].entity]
_extract_entities(c, seed) ==
    FirstFive(SortByIndex(Indexed(c, SetOrder(MatchTexts(ENTITY_PATTERN, c), seed))))

\* re.split(r"[^\w@#]+", text): the pieces between the runs of other characters
TokenSet == WordSet \cup {"@", "#"}
TokenStarts(text) ==
    {i \in DOMAIN text : text[i] \in TokenSet /\ (i = 1 \/ text[i - 1] \notin TokenSet)}
TokenEnd(text, i) == MinOf({j \in i..Len(text) : j = Len(text) \/ text[j + 1] \notin TokenSet})
Ascending(S) == [k \in 1..Cardinality(S) |-> CHOOSE i \in S : Cardinality({j \in S : j <= i}) = k]
Tokens(text, starts) == [k \in DOMAIN starts |-> SubSeq(text, starts[k], TokenEnd(text, starts[k]))]
\* a text that begins or ends with other characters gives an empty piece there
Split(text) ==
    IF text = <<>> THEN << <<>> >>
    ELSE (IF text[1] \notin TokenSet THEN << <<>> >> ELSE <<>>)
         \o Tokens(text, Ascending(TokenStarts(text)))
         \o (IF text[Len(text)] \notin TokenSet THEN << <<>> >> ELSE <<>>)

\* the keywords without the cut to 8
_extract_keywords_uncut(claim_lower) ==
    SelectSeq(Split(claim_lower),
              LAMBDA tok : tok # <<>> /\ Len(tok) > 3 /\ tok \notin STOPWORDS)

_extract_keywords(claim_lower) ==
    Slice(SelectSeq(Split(claim_lower),
                    LAMBDA tok : tok # <<>> /\ Len(tok) > 3 /\ tok \notin STOPWORDS), 8)

\* r"\b(?:in|at|near|from|to)\s+([A-Z][a-z]+(?:\s[A-Z][a-z]+)*)"
LocationAfter ==
    Cat(<<WB, Alt(<<Lit(<<"i","n">>), Lit(<<"a","t">>), Lit(<<"n","e","a","r">>), Lit(<<"f","r","o","m">>), Lit(<<"t","o">>)>>), Plus(Space)>>)
\* r"\b([A-Z][a-z]+(?:\s[A-Z][a-z]+)*)\s+(?:airport|hospital|station|city)\b"
LocationBefore ==
    Cat(<<Plus(Space), Alt(<<Lit(<<"a","i","r","p","o","r","t">>), Lit(<<"h","o","s","p","i","t","a","l">>), Lit(<<"s","t","a","t","i","o","n">>), Lit(<<"c","i","t","y">>)>>), WB>>)

_extract_location(c, entities) ==
    LET m1 == SearchGroup(LocationAfter, CapRun, Cat(<<>>), c, 1)
        m2 == SearchGroup(WB, CapRun, LocationBefore, c, 1)
    IN  IF m1 # None THEN Str(Strip(Group(c, m1)))
        ELSE IF m2 # None THEN Str(Strip(Group(c, m2)))
        ELSE IF Len(entities) > 1 THEN Str(entities[2])
        ELSE None

\* r"\b(\d{1,2}\s?(?:am|pm))\b"
ClockTime == Cat(<<Rep(Digit, 1, 2), Opt(Space), Alt(<<Lit(<<"a","m">>), Lit(<<"p","m">>)>>)>>)
DayWords == << <<"m","o","r","n","i","n","g">>, <<"e","v","e","n","i","n","g">>, <<"t","o","n","i","g","h","t">>, <<"t","o","d","a","y">>, <<"t","o","m","o","r","r","o","w">>, <<"y","e","s","t","e","r","d","a","y">> >>

_extract_time_phrase(claim_lower) ==
    LET time_match == SearchGroup(WB, ClockTime, WB, claim_lower, 1)
        found == {k \in DOMAIN DayWords : Contains(claim_lower, DayWords[k])}
    IN  IF time_match # None THEN Str(Group(claim_lower, time_match))
        ELSE IF found # {} THEN Str(DayWords[MinOf(found)])
        ELSE None

\* r"\b(shut\s+down|cancelled|canceled|closed|delay|postponed|confirmed|declared|
\*       announced|reported|confirmed|denied|verified)\b"
ActionWords ==
    Alt(<<Cat(<<Lit(<<"s","h","u","t">>), Plus(Space), Lit(<<"d","o","w","n">>)>>), Lit(<<"c","a","n","c","e","l","l","e","d">>), Lit(<<"c","a","n","c","e","l","e","d">>),
          Lit(<<"c","l","o","s","e","d">>), Lit(<<"d","e","l","a","y">>), Lit(<<"p","o","s","t","p","o","n","e","d">>), Lit(<<"c","o","n","f","i","r","m","e","d">>), Lit(<<"d","e","c","l","a","r","e","d">>),
          Lit(<<"a","n","n","o","u","n","c","e","d">>), Lit(<<"r","e","p","o","r","t","e","d">>), Lit(<<"c","o","n","f","i","r","m","e","d">>), Lit(<<"d","e","n","i","e","d">>), Lit(<<"v","e","r","i","f","i","e","d">>)>>)

_extract_action(claim_lower) ==
    LET found == {k \in DOMAIN ACTION_PATTERNS : Contains(claim_lower, ACTION_PATTERNS[k])}
        action_match == SearchGroup(WB, ActionWords, WB, claim_lower, 1)
    IN  IF found # {} THEN Str(ACTION_PATTERNS[MinOf(found)])
        ELSE IF action_match # None THEN Str(Group(claim_lower, action_match))
        ELSE None

\* StructuredClaim
_build_structured_claim(c, entities) ==
    [subject |-> IF entities # <<>> THEN Str(entities[1]) ELSE None,
     action |-> _extract_action(Lower(c)),
     location |-> _extract_location(c, entities),
     time |-> _extract_time_phrase(Lower(c)),
     entities |-> entities]

_extract_quantitative_elements(c) ==
    LET RECURSIVE all(_)
        all(k) == IF k > Len(QUANTITATIVE_PATTERNS) THEN <<>>
                  ELSE MatchTexts(QUANTITATIVE_PATTERNS[k], c) \o all(k + 1)
    IN  Slice(all(1), 5)

\* len(text.split()): the runs of characters that are no white space
WordCount(text) ==
    Cardinality({i \in DOMAIN text : ~IsSpace(text[i]) /\ (i = 1 \/ IsSpace(text[i - 1]))})

\* r"\band\b|\bor\b" and r"[,.]\s+[A-Z]"
Conjunction == Alt(<<Cat(<<WB, Lit(<<"a","n","d">>), WB>>), Cat(<<WB, Lit(<<"o","r">>), WB>>)>>)
ClauseBreak == Cat(<<Cls({",", "."}), Plus(Space), Cls(UpperSet)>>)

_assess_claim_complexity(c, seed) ==
    LET word_count == WordCount(c)
        entity_count == Len(_extract_entities(c, seed))
        has_conjunctions == SearchFrom(Conjunction, Lower(c), 1) # None
        has_multiple_clauses == SearchFrom(ClauseBreak, c, 1) # None
        has_quantitative == _extract_quantitative_elements(c) # <<>>
    IN  IF word_count <= 15 /\ entity_count <= 2 /\ ~has_multiple_clauses /\ ~has_quantitative
        THEN "simple"
        ELSE IF word_count <= 40 /\ entity_count <= 4 /\ ~has_conjunctions
        THEN "moderate"
        ELSE "complex"

_identify_supporting_evidence_types(claim_lower) ==
    LET evidence_types ==
            SelectSeq([k \in DOMAIN SUPPORT_EVIDENCE_INDICATORS |-> SUPPORT_EVIDENCE_INDICATORS[k]],
                      LAMBDA e : AnyIn(claim_lower, e.indicators))
    IN  Slice([k \in DOMAIN evidence_types |-> evidence_types[k].type], 3)

\* _extract_temporal_indicators: of each category, the first indicator of the
\* set, as the set is iterated, that is in the claim
_extract_temporal_indicators(claim_lower, seed) ==
    LET first(category) ==
            LET order == SetOrder(category.indicators, seed)
                found == {k \in DOMAIN order : Contains(claim_lower, order[k])}
            IN  IF found = {} THEN <<>> ELSE <<order[MinOf(found)]>>
        RECURSIVE all(_)
        all(k) == IF k > Len(TEMPORAL_INDICATORS) THEN <<>>
                  ELSE first(TEMPORAL_INDICATORS[k]) \o all(k + 1)
    IN  Slice(all(1), 3)

InSeq(x, items) == \E i \in DOMAIN items : items[i] = x

\* the indicators of a category of TEMPORAL_INDICATORS
IndicatorsOf(name) ==
    LET k == CHOOSE k \in DOMAIN TEMPORAL_INDICATORS : TEMPORAL_INDICATORS[k].category = name
    IN  {TEMPORAL_INDICATORS[k].indicators[i] : i \in DOMAIN TEMPORAL_INDICATORS[k].indicators}

\* _calculate_evidence_confidence, in thousandths
_calculate_evidence_confidence(supporting_types, temporal_indicators) ==
    LET source == IF InSeq("official", supporting_types) THEN 150
                  ELSE IF InSeq("statistical", supporting_types) THEN 100
                  ELSE IF InSeq("expert", supporting_types) THEN 80
                  ELSE 0
        several == IF Len(supporting_types) > 1 THEN 50 * (Len(supporting_types) - 1) ELSE 0
        recent == IF \E i \in DOMAIN temporal_indicators :
                        temporal_indicators[i] \in IndicatorsOf("immediate") THEN 80
                  ELSE IF \E i \in DOMAIN temporal_indicators :
                        temporal_indicators[i] \in IndicatorsOf("short_term") THEN 40
                  ELSE 0
    IN  Min(250, source + several + recent)

\* f'"{a}" {b}' and f"{a} {b}"
Quoted(a, b) == <<"\"">> \o a \o <<"\"", " ">> \o b
Spaced(a, b) == a \o <<" ">> \o b

\* _deduplicate_queries: the first query of each normalised text, stripped
RECURSIVE DeduplicateFrom(_, _)
DeduplicateFrom(queries, sn) ==
    IF queries = <<>> THEN <<>>
    ELSE LET q == Head(queries)
             normalized == Lower(Strip(q))
         IN  IF normalized = <<>> \/ normalized \in sn
             THEN DeduplicateFrom(Tail(queries), sn)
             ELSE <<Strip(q)>> \o DeduplicateFrom(Tail(queries), sn \cup {normalized})

\* a deduplication that tells upper case from lower case
RECURSIVE DeduplicateExact(_, _)
DeduplicateExact(queries, sn) ==
    IF queries = <<>> THEN <<>>
    ELSE IF Strip(Head(queries)) = <<>> \/ Strip(Head(queries)) \in sn
    THEN DeduplicateExact(Tail(queries), sn)
    ELSE <<Strip(Head(queries))>> \o DeduplicateExact(Tail(queries), sn \cup {Strip(Head(queries))})
_deduplicate_queries_exact(queries) == DeduplicateExact(queries, {})

_deduplicate_queries(queries) == DeduplicateFrom(queries, {})

domain_hints ==
    <<
      [domain |-> "health", hints |-> << <<"o","f","f","i","c","i","a","l"," ","h","e","a","l","t","h"," ","u","p","d","a","t","e">>,
          <<"h","e","a","l","t","h"," ","m","i","n","i","s","t","r","y"," ","s","t","a","t","e","m","e","n","t">>,
          <<"m","e","d","i","c","a","l"," ","r","e","p","o","r","t">> >>],
      [domain |-> "politics", hints |-> << <<"f","a","c","t"," ","c","h","e","c","k">>,
          <<"o","f","f","i","c","i","a","l"," ","s","t","a","t","e","m","e","n","t">>,
          <<"g","o","v","e","r","n","m","e","n","t"," ","a","n","n","o","u","n","c","e","m","e","n","t">> >>],
      [domain |-> "travel", hints |-> << <<"s","t","a","t","u","s"," ","u","p","d","a","t","e">>,
          <<"t","r","a","v","e","l"," ","a","d","v","i","s","o","r","y">>,
          <<"f","l","i","g","h","t"," ","i","n","f","o","r","m","a","t","i","o","n">> >>],
      [domain |-> "disaster", hints |-> << <<"r","e","l","i","e","f"," ","u","p","d","a","t","e">>,
          <<"e","m","e","r","g","e","n","c","y"," ","s","e","r","v","i","c","e","s">>,
          <<"d","a","m","a","g","e"," ","a","s","s","e","s","s","m","e","n","t">> >>],
      [domain |-> "finance", hints |-> << <<"m","a","r","k","e","t"," ","n","e","w","s">>,
          <<"f","i","n","a","n","c","i","a","l"," ","r","e","p","o","r","t">>,
          <<"e","c","o","n","o","m","i","c"," ","u","p","d","a","t","e">> >>],
      [domain |-> "technology", hints |-> << <<"c","y","b","e","r"," ","a","l","e","r","t">>,
          <<"s","e","c","u","r","i","t","y"," ","u","p","d","a","t","e">>,
          <<"t","e","c","h"," ","n","e","w","s">> >>]
    >>

_generate_search_queries(c, structured, entities, domain) ==
    LET subject == structured.subject
        action == structured.action
        location == structured.location
        time == structured.time
        first_two == Slice(entities, 2)
        hinted == {k \in DOMAIN domain_hints : domain_hints[k].domain = domain}
        hints == IF hinted # {} /\ subject # None
                 THEN Slice(domain_hints[CHOOSE k \in hinted : TRUE].hints, 2)
                 ELSE <<>>
    IN  _deduplicate_queries(
            <<c>>
            \o (IF subject # None /\ action # None THEN <<Spaced(subject.str, action.str)>> ELSE <<>>)
            \o (IF location # None /\ action # None THEN <<Spaced(location.str, action.str)>> ELSE <<>>)
            \o (IF location # None /\ time # None THEN <<Spaced(location.str, time.str)>> ELSE <<>>)
            \o (IF action # None
                THEN [k \in DOMAIN first_two |-> Quoted(first_two[k], action.str)]
                ELSE <<>>)
            \o [k \in DOMAIN hints |-> Quoted(subject.str, hints[k])])

evidence_modifiers ==
    <<
      [type |-> "official", modifiers |-> <<
          <<"o","f","f","i","c","i","a","l"," ","s","t","a","t","e","m","e","n","t">>,
          <<"g","o","v","e","r","n","m","e","n","t"," ","c","o","n","f","i","r","m","a","t","i","o","n">>,
          <<"p","r","e","s","s"," ","r","e","l","e","a","s","e">>,
          <<"a","u","t","h","o","r","i","t","i","e","s">> >>],
      [type |-> "statistical", modifiers |-> <<
          <<"s","t","u","d","y">>,
          <<"r","e","s","e","a","r","c","h">>,
          <<"o","f","f","i","c","i","a","l"," ","d","a","t","a">>,
          <<"s","t","a","t","i","s","t","i","c","s">>,
          <<"r","e","p","o","r","t">> >>],
      [type |-> "eyewitness", modifiers |-> <<
          <<"w","i","t","n","e","s","s"," ","a","c","c","o","u","n","t","s">>,
          <<"r","e","s","i","d","e","n","t"," ","r","e","p","o","r","t","s">>,
          <<"f","i","r","s","t","h","a","n","d"," ","a","c","c","o","u","n","t","s">>,
          <<"l","o","c","a","l"," ","s","o","u","r","c","e","s">> >>],
      [type |-> "media", modifiers |-> <<
          <<"n","e","w","s"," ","r","e","p","o","r","t">>,
          <<"j","o","u","r","n","a","l","i","s","t"," ","a","c","c","o","u","n","t">>,
          <<"m","e","d","i","a"," ","c","o","v","e","r","a","g","e">>,
          <<"b","r","o","a","d","c","a","s","t">> >>],
      [type |-> "expert", modifiers |-> <<
          <<"e","x","p","e","r","t"," ","a","n","a","l","y","s","i","s">>,
          <<"s","p","e","c","i","a","l","i","s","t"," ","o","p","i","n","i","o","n">>,
          <<"p","r","o","f","e","s","s","i","o","n","a","l"," ","a","s","s","e","s","s","m","e","n","t">> >>]
    >>

_generate_contextual_search_queries(structured, supporting_types) ==
    LET for_type(evidence_type) ==
            LET known == {k \in DOMAIN evidence_modifiers : evidence_modifiers[k].type = evidence_type}
                modifiers == IF known # {} /\ structured.subject # None
                             THEN Slice(evidence_modifiers[CHOOSE k \in known : TRUE].modifiers, 2)
                             ELSE <<>>
            IN  [k \in DOMAIN modifiers |-> Quoted(structured.subject.str, modifiers[k])]
        RECURSIVE all(_)
        all(k) == IF k > Len(supporting_types) THEN <<>>
                  ELSE for_type(supporting_types[k]) \o all(k + 1)
    IN  all(1)

\* r"\d{3,}"
BigNumber == Rep(Digit, 3, Unbounded)
LongClaim == 240

\* the sum with the 0.05 of a long claim added
risk_sum_long_added(claim_type, emergency, big_number, long, quantitative) ==
    300
    + (IF claim_type = "question" THEN 100
       ELSE IF claim_type = "numerical_claim" THEN 200
       ELSE IF claim_type = "action_claim" THEN 150
       ELSE 0)
    + (IF emergency THEN 250 ELSE 0)
    + (IF big_number THEN 150 ELSE 0)
    + (IF long THEN 50 ELSE 0)
    + (IF quantitative THEN 100 ELSE 0)

\* the sum of _score_risk, in thousandths, from the signals it reads in the claim
risk_sum(claim_type, emergency, big_number, long, quantitative) ==
    300
    + (IF claim_type = "question" THEN 100
       ELSE IF claim_type = "numerical_claim" THEN 200
       ELSE IF claim_type = "action_claim" THEN 150
       ELSE 0)
    + (IF emergency THEN 250 ELSE 0)
    + (IF big_number THEN 150 ELSE 0)
    - (IF long THEN 50 ELSE 0)
    + (IF quantitative THEN 100 ELSE 0)

Max(a, b) == IF a > b THEN a ELSE b

\* max(0.1, min(1.0, risk))
risk_clamp(risk) == Max(100, Min(1000, risk))

_score_risk(c, claim_type) ==
    risk_clamp(risk_sum(claim_type,
                        AnyIn(Lower(c), EMERGENCY_WORDS),
                        SearchFrom(BigNumber, c, 1) # None,
                        Len(c) > LongClaim,
                        _extract_quantitative_elements(c) # <<>>))

\* _score_confidence, in thousandths (risk is a multiple of 0.05)
_score_confidence(claim_type, risk, entity_count) ==
    LET base == (IF claim_type # "narrative_claim" THEN 550 ELSE 400)
                + 80 * Min(entity_count, 3)
                + (risk - 300) \div 10
    IN  Max(350, Min(850, base))

\* the adjustment without the cap of 0.95
adjusted_confidence_uncapped(confidence, evidence_bonus) == confidence + evidence_bonus

\* min(0.95, confidence + evidence_bonus)
adjusted_confidence(confidence, evidence_bonus) == Min(950, confidence + evidence_bonus)

\* the values _build_notes and _build_enhanced_notes write into the notes
\* text, in the order they write them
_build_notes(claim_type, domain, entities, risk, structured) ==
    [domain |-> domain, claim_type |-> claim_type, action |-> structured.action,
     entities |-> Slice(entities, 3), risk |-> risk]

_build_enhanced_notes(base_notes, complexity, supporting_types, temporal_indicators, quantitative_elements, risk) ==
    [base |-> base_notes, complexity |-> complexity, evidence |-> supporting_types,
     temporal |-> Slice(temporal_indicators, 2), quantitative |-> Slice(quantitative_elements, 2),
     priority |-> IF risk > 650 THEN "HIGH" ELSE IF risk > 450 THEN "MEDIUM" ELSE "LOW"]

\* the body of detect after the validation: the DetectionResult of a clean
\* claim. Each value detect computes is computed once and handed on, in the
\* order of detect: the lower-cased claim, the core analysis, the enhanced
\* analysis, the queries and the scores, the result.
DetectionRecord(c, domain, claim_type, entities, keywords, structured, queries, contextual_queries, risk, confidence, evidence_bonus, notes, complexity, supporting_types, temporal_indicators, quantitative_elements) ==
    [claim |-> c,
     domain |-> domain,
     claim_type |-> claim_type,
     entities |-> entities,
     keywords |-> keywords,
     structured_claim |-> structured,
     search_queries |-> Slice(_deduplicate_queries(queries \o contextual_queries), 8),
     risk_score |-> risk,
     confidence |-> adjusted_confidence(confidence, evidence_bonus),
     notes |-> _build_enhanced_notes(notes, complexity, supporting_types, temporal_indicators,
                                     quantitative_elements, risk),
     claim_complexity |-> complexity,
     supporting_evidence_types |-> supporting_types,
     temporal_indicators |-> temporal_indicators,
     quantitative_elements |-> quantitative_elements]

DetectionScored(c, seed, domain, claim_type, entities, keywords, structured, risk, supporting_types, temporal_indicators, quantitative_elements) ==
    DetectionRecord(c, domain, claim_type, entities, keywords, structured,
                    _generate_search_queries(c, structured, entities, domain),
                    _generate_contextual_search_queries(structured, supporting_types),
                    risk,
                    _score_confidence(claim_type, risk, Len(entities)),
                    _calculate_evidence_confidence(supporting_types, temporal_indicators),
                    _build_notes(claim_type, domain, entities, risk, structured),
                    _assess_claim_complexity(c, seed),
                    supporting_types, temporal_indicators, quantitative_elements)

DetectionAnalysed(c, seed, claim_lower, claim_type, entities) ==
    DetectionScored(c, seed,
                    _detect_domain(claim_lower),
                    claim_type,
                    entities,
                    _extract_keywords(claim_lower),
                    _build_structured_claim(c, entities),
                    _score_risk(c, claim_type),
                    _identify_supporting_evidence_types(claim_lower),
                    _extract_temporal_indicators(claim_lower, seed),
                    _extract_quantitative_elements(c))

DetectionLowered(c, seed, claim_lower) ==
    DetectionAnalysed(c, seed, claim_lower, _classify_claim(claim_lower), _extract_entities(c, seed))

DetectionResult(c, seed) == DetectionLowered(c, seed, Lower(c))

\* detect with the length taken before trimming
detect_unstripped(c, seed) ==
    IF Len(IF c = None THEN <<>> ELSE c.str) < MinClaimLen
    THEN [ok |-> FALSE, error |-> ValueError]
    ELSE [ok |-> TRUE, value |-> DetectionResult(clean_claim(c), seed)]

\* detect, in an interpreter with the given hash seed: the ValueError, or the
\* DetectionResult
detect(c, seed) ==
    IF Len(clean_claim(c)) < MinClaimLen
    THEN [ok |-> FALSE, error |-> ValueError]
    ELSE [ok |-> TRUE, value |-> DetectionResult(clean_claim(c), seed)]

---------------------------------------------------------------------------
(* The claims given to detector_agent.detect *)

\* "Breaking: WHO warns of a new virus outbreak in Mumbai hospitals with 150 cases reported today."
OutbreakClaim ==
    <<"B","r","e","a","k","i","n","g",":"," ","W","H","O"," ","w","a","r","n","s"," ","o","f"," ",
      "a"," ","n","e","w"," ","v","i","r","u","s"," ","o","u","t","b","r","e","a","k"," ","i","n",
      " ","M","u","m","b","a","i"," ","h","o","s","p","i","t","a","l","s"," ","w","i","t","h"," ",
      "1","5","0"," ","c","a","s","e","s"," ","r","e","p","o","r","t","e","d"," ","t","o","d","a",
      "y",".">>

\* "Is the airport in Delhi really closed due to security threats?"
AirportThreatsClaim ==
    <<"I","s"," ","t","h","e"," ","a","i","r","p","o","r","t"," ","i","n"," ","D","e","l","h","i",
      " ","r","e","a","l","l","y"," ","c","l","o","s","e","d"," ","d","u","e"," ","t","o"," ","s",
      "e","c","u","r","i","t","y"," ","t","h","r","e","a","t","s","?">>

\* "Stock market crashed by 12% this morning, experts predict recession."
MarketClaim ==
    <<"S","t","o","c","k"," ","m","a","r","k","e","t"," ","c","r","a","s","h","e","d"," ","b","y",
      " ","1","2","%"," ","t","h","i","s"," ","m","o","r","n","i","n","g",","," ","e","x","p","e",
      "r","t","s"," ","p","r","e","d","i","c","t"," ","r","e","c","e","s","s","i","o","n",".">>

\* "Local resident claims to have seen UFO near the power plant last night."
ResidentClaim ==
    <<"L","o","c","a","l"," ","r","e","s","i","d","e","n","t"," ","c","l","a","i","m","s"," ","t",
      "o"," ","h","a","v","e"," ","s","e","e","n"," ","U","F","O"," ","n","e","a","r"," ","t","h",
      "e"," ","p","o","w","e","r"," ","p","l","a","n","t"," ","l","a","s","t"," ","n","i","g","h",
      "t",".">>

\* "Government announces new policy: all schools closed for next two weeks due to rising cases."
PolicyClaim ==
    <<"G","o","v","e","r","n","m","e","n","t"," ","a","n","n","o","u","n","c","e","s"," ","n","e",
      "w"," ","p","o","l","i","c","y",":"," ","a","l","l"," ","s","c","h","o","o","l","s"," ","c",
      "l","o","s","e","d"," ","f","o","r"," ","n","e","x","t"," ","t","w","o"," ","w","e","e","k",
      "s"," ","d","u","e"," ","t","o"," ","r","i","s","i","n","g"," ","c","a","s","e","s",".">>

\* "Is the airport in Delhi really closed?"
AirportClaim ==
    <<"I","s"," ","t","h","e"," ","a","i","r","p","o","r","t"," ","i","n"," ","D","e","l","h","i",
      " ","r","e","a","l","l","y"," ","c","l","o","s","e","d","?">>

\* "Mumbai Airport flights have been cancelled due to security threat."
FlightsClaim ==
    <<"M","u","m","b","a","i"," ","A","i","r","p","o","r","t"," ","f","l","i","g","h","t","s"," ",
      "h","a","v","e"," ","b","e","e","n"," ","c","a","n","c","e","l","l","e","d"," ","d","u","e",
      " ","t","o"," ","s","e","c","u","r","i","t","y"," ","t","h","r","e","a","t",".">>

\* "Ram Kumar met Sita Devi at 5 pm in New Delhi near Pune city, and 2,500 crore was spent. Then 3.5 million people left"
CroreClaim ==
    <<"R","a","m"," ","K","u","m","a","r"," ","m","e","t"," ","S","i","t","a"," ","D","e","v","i",
      " ","a","t"," ","5"," ","p","m"," ","i","n"," ","N","e","w"," ","D","e","l","h","i"," ","n",
      "e","a","r"," ","P","u","n","e"," ","c","i","t","y",","," ","a","n","d"," ","2",",","5","0",
      "0"," ","c","r","o","r","e"," ","w","a","s"," ","s","p","e","n","t","."," ","T","h","e","n",
      " ","3",".","5"," ","m","i","l","l","i","o","n"," ","p","e","o","p","l","e"," ","l","e","f",
      "t">>

\* "The train derailed at Agra station; 1200 people, 15 flights, 30 degrees, 40 rupees, 7 deaths, 99 tests"
DerailedClaim ==
    <<"T","h","e"," ","t","r","a","i","n"," ","d","e","r","a","i","l","e","d"," ","a","t"," ","A",
      "g","r","a"," ","s","t","a","t","i","o","n",";"," ","1","2","0","0"," ","p","e","o","p","l",
      "e",","," ","1","5"," ","f","l","i","g","h","t","s",","," ","3","0"," ","d","e","g","r","e",
      "e","s",","," ","4","0"," ","r","u","p","e","e","s",","," ","7"," ","d","e","a","t","h","s",
      ","," ","9","9"," ","t","e","s","t","s">>

\* "a  b\tc   delay"
DelayClaim ==
    <<"a"," "," ","b","\t","c"," "," "," ","d","e","l","a","y">>

\* "shut  down the Bank at 11am, official study by expert resident reported by media"
BankClaim ==
    <<"s","h","u","t"," "," ","d","o","w","n"," ","t","h","e"," ","B","a","n","k"," ","a","t"," ",
      "1","1","a","m",","," ","o","f","f","i","c","i","a","l"," ","s","t","u","d","y"," ","b","y",
      " ","e","x","p","e","r","t"," ","r","e","s","i","d","e","n","t"," ","r","e","p","o","r","t",
      "e","d"," ","b","y"," ","m","e","d","i","a">>

\* "100% sure"
PercentClaim ==
    <<"1","0","0","%"," ","s","u","r","e">>

\* "New Delhi is big. New rules apply"
NewDelhiClaim ==
    <<"N","e","w"," ","D","e","l","h","i"," ","i","s"," ","b","i","g","."," ","N","e","w"," ","r",
      "u","l","e","s"," ","a","p","p","l","y">>

\* "Flights today and tonight are late"
TonightClaim ==
    <<"F","l","i","g","h","t","s"," ","t","o","d","a","y"," ","a","n","d"," ","t","o","n","i","g",
      "h","t"," ","a","r","e"," ","l","a","t","e">>

\* "Breaking: official study says expert resident Ram met Sita in Delhi today, recent news this year. Then Pune, Agra, Goa closed: 5 cases 6 deaths 7 people 8 flights 9 rupees 10 degrees"
CapsClaim ==
    <<"B","r","e","a","k","i","n","g",":"," ","o","f","f","i","c","i","a","l"," ","s","t","u","d",
      "y"," ","s","a","y","s"," ","e","x","p","e","r","t"," ","r","e","s","i","d","e","n","t"," ",
      "R","a","m"," ","m","e","t"," ","S","i","t","a"," ","i","n"," ","D","e","l","h","i"," ","t",
      "o","d","a","y",","," ","r","e","c","e","n","t"," ","n","e","w","s"," ","t","h","i","s"," ",
      "y","e","a","r","."," ","T","h","e","n"," ","P","u","n","e",","," ","A","g","r","a",","," ",
      "G","o","a"," ","c","l","o","s","e","d",":"," ","5"," ","c","a","s","e","s"," ","6"," ","d",
      "e","a","t","h","s"," ","7"," ","p","e","o","p","l","e"," ","8"," ","f","l","i","g","h","t",
      "s"," ","9"," ","r","u","p","e","e","s"," ","1","0"," ","d","e","g","r","e","e","s">>

\* "  short "
ShortClaim ==
    <<" "," ","s","h","o","r","t"," ">>

\* "Delhi AIRPORT CLOSED"
ShoutClaim ==
    <<"D","e","l","h","i"," ","A","I","R","P","O","R","T"," ","C","L","O","S","E","D">>

DetectClaims ==
    {Str(c) : c \in {ShoutClaim, OutbreakClaim, AirportThreatsClaim, MarketClaim, ResidentClaim, PolicyClaim,
                     AirportClaim, FlightsClaim, CroreClaim, DerailedClaim, DelayClaim, BankClaim,
                     PercentClaim, NewDelhiClaim, TonightClaim, CapsClaim, ShortClaim,
                     PlainClaim, RegionClaim, BoardClaim, <<>>}} \cup {None}

---------------------------------------------------------------------------
(* state.py *)

StateFields == {"claim", "user_id", "detection_result", "verification_result",
                "should_continue", "next_node", "messages", "verification_id",
                "timestamp", "search_queries", "retrieved_evidence", "evidence_analysis"}

SystemMessage(prefix, err) == [role |-> "system", content |-> <<prefix, err>>]

set_detection_result(s, detection_result) ==
    Update(s, [detection_result |-> detection_result,
               search_queries |-> IF detection_result # None
                                  THEN List(detection_result.search_queries)
                                  ELSE None])

set_verification_result(s, verification_result) ==
    Update(s, [verification_result |-> verification_result])

---------------------------------------------------------------------------
(* workflow.py *)

\* the state run_verification_workflow builds (user_id and verification_id default to None)
initial_state(c) ==
    [claim |-> c, user_id |-> None, detection_result |-> None,
     verification_result |-> None, should_continue |-> TRUE, next_node |-> None,
     messages |-> <<>>, verification_id |-> None, timestamp |-> None,
     search_queries |-> None, retrieved_evidence |-> None, evidence_analysis |-> None]

\* node "detect"
detect_claim(s, seed) ==
    LET r == detect(s.claim, seed) IN
    IF r.ok
    THEN Update(set_detection_result(s, r.value),
                [should_continue |-> TRUE, next_node |-> Str("verify")])
    ELSE Update(s, [should_continue |-> FALSE,
                    verification_result |-> None,
                    messages |-> Append(s.messages,
                        SystemMessage("Detection failed with error: ", r.error))])

\* conditional edge out of "detect"; its path map sends "detect" to the detect
\* node and "verify" to the verify node
should_verify(s) == IF s.detection_result = None THEN "detect" ELSE "verify"

\* the parameters of VerifierAgent.verify_claim after self, and the call the
\* verify node makes: one positional argument and the keyword "detection"
VerifierParams == <<"claim">>
NodeCallPositional == 1
NodeCallKeywords == {"detection"}

\* Python's argument binding: every keyword names a parameter not bound
\* positionally, and every parameter is bound (none has a default)
CallBinds(params, npos, kws) ==
    /\ npos <= Len(params)
    /\ \A k \in kws : \E i \in (npos + 1)..Len(params) : params[i] = k
    /\ Len(params) = npos + Cardinality(kws)

TypeError == "VerifierAgent.verify_claim() got an unexpected keyword argument 'detection'"

\* node "verify", except branch
verify_claim_failed(s, err) ==
    Update(s, [should_continue |-> FALSE,
               verification_result |-> None,
               messages |-> Append(s.messages,
                   SystemMessage("Verification failed with error: ", err))])

\* node "verify", after verifier_agent.verify_claim returned
verify_claim_done(s, verification_result) ==
    Update(set_verification_result(s, verification_result),
           [should_continue |-> FALSE,
            retrieved_evidence |-> List(verification_result.evidence)])

GraphRecursionError == "Recursion limit reached without hitting a stop condition"

\* an except branch that records no message
error_state_silent(c, err) ==
    Update(initial_state(c), [verification_result |-> None, should_continue |-> FALSE])

\* run_verification_workflow, except branch
error_state(c, err) ==
    Update(initial_state(c),
           [verification_result |-> None,
            should_continue |-> FALSE,
            messages |-> Append(initial_state(c).messages,
                SystemMessage("Workflow execution failed with error: ", err))])

---------------------------------------------------------------------------
(* verifier_agent.py: the queries *)

\* a query is the claim followed by a literal suffix (claim + " official"),
\* or a literal alone (the claim part empty)
Query(c, lit) == [claim |-> c, lit |-> lit]

base_queries(c) ==
    << Query(c, ""), Query(c, " official"), Query(c, " government announcement"),
       Query(c, " 2025"), Query(c, " latest update") >>

RegionNames ==
    { <<"d","e","l","h","i">>, <<"u","p">>,
      <<"u","t","t","a","r"," ","p","r","a","d","e","s","h">>,
      <<"m","a","h","a","r","a","s","h","t","r","a">>, <<"b","i","h","a","r">>,
      <<"t","a","m","i","l"," ","n","a","d","u">>, <<"k","e","r","a","l","a">>,
      <<"g","u","j","a","r","a","t">>, <<"r","a","j","a","s","t","h","a","n">> }

extra_queries(c) ==
    LET claim_lower == Lower(c) IN
    (IF \E r \in RegionNames : Contains(claim_lower, r)
     THEN << Query(c, " school holiday calendar 2025-26"),
             Query(c, " education department circular") >>
     ELSE <<>>)
    \o (IF Contains(claim_lower, <<"c","b","s","e">>)
        THEN << Query(<<>>, "CBSE official circular"), Query(<<>>, "CBSE datesheet 2026"),
                Query(<<>>, "cbseacademic.nic.in") >>
        ELSE <<>>)
    \o (IF \/ Contains(claim_lower, <<"u","p"," ","b","o","a","r","d">>)
           \/ Contains(claim_lower, <<"u","p","m","s","p">>)
        THEN << Query(<<>>, "UP Board official announcement 2025-26") >>
        ELSE <<>>)
    \o (IF \/ Contains(claim_lower, <<"n","e","e","t">>)
           \/ Contains(claim_lower, <<"j","e","e">>)
        THEN << Query(<<>>, "NTA official notification") >>
        ELSE <<>>)

all_queries(c) == base_queries(c) \o extra_queries(c)

---------------------------------------------------------------------------
(* verifier_agent.py: aggregation *)

\* A url or title is the sequence of its "/"-separated parts, so that
\* url.split("/") is the value itself; the empty str is <<"">>.
EmptyStr == <<"">>

ScoreCutoff == 90       \* hundredths: score > 0.90
SummaryCap == 1800
EvidenceCap == 20

Take(s, n) == SubSeq(s, 1, Min(Len(s), n))

\* key = url or title
DatasetKey(doc) == IF doc.url # EmptyStr THEN doc.url ELSE doc.title

\* published = metadata.get("published") or metadata.get("date")
DatasetPublished(doc) == IF doc.published # None THEN doc.published ELSE doc.date

\* url.split("/")[2] raises IndexError when the url has fewer than three parts
DomainRaises(doc) == doc.url # EmptyStr /\ Len(doc.url) < 3

DatasetItem(doc) ==
    [title |-> doc.title, url |-> doc.url, summary |-> Min(doc.content, SummaryCap),
     stance |-> "neutral", published |-> DatasetPublished(doc),
     source_domain |-> IF doc.url # EmptyStr THEN Str(doc.url[3]) ELSE None,
     origin |-> "dataset"]

\* the loop with a cutoff that discards the score 0.90 too
RECURSIVE ProcessResultsFrom90(_, _, _)
ProcessResultsFrom90(results, ev, sn) ==
    IF results = <<>> THEN [evidence |-> ev, seen |-> sn]
    ELSE IF DatasetKey(Head(results)) \in sn \/ Head(results).score >= ScoreCutoff
         THEN ProcessResultsFrom90(Tail(results), ev, sn)
         ELSE IF DomainRaises(Head(results))
              THEN [evidence |-> ev, seen |-> sn \cup {DatasetKey(Head(results))}]
              ELSE ProcessResultsFrom90(Tail(results), Append(ev, DatasetItem(Head(results))),
                                        sn \cup {DatasetKey(Head(results))})

\* the inner loop over one query's results; an exception leaves the loop and is
\* caught by the query's except clause, the key already added to seen
RECURSIVE ProcessResults(_, _, _)
ProcessResults(results, ev, sn) ==
    IF results = <<>> THEN [evidence |-> ev, seen |-> sn]
    ELSE LET doc == Head(results)
             key == DatasetKey(doc)
         IN  IF key \in sn \/ doc.score > ScoreCutoff
             THEN ProcessResults(Tail(results), ev, sn)
             ELSE IF DomainRaises(doc)
                  THEN [evidence |-> ev, seen |-> sn \cup {key}]
                  ELSE ProcessResults(Tail(results), Append(ev, DatasetItem(doc)),
                                      sn \cup {key})

FeedItem(doc) ==
    [title |-> doc.title, url |-> doc.url, summary |-> Min(doc.content, SummaryCap),
     stance |-> "neutral", published |-> doc.published,
     source_domain |-> None, origin |-> "rss"]

\* the loop over the feed items: the key is the url alone
RECURSIVE ProcessFeed(_, _, _)
ProcessFeed(docs, ev, sn) ==
    IF docs = <<>> THEN [evidence |-> ev, seen |-> sn]
    ELSE LET doc == Head(docs) IN
         IF doc.url \in sn
         THEN ProcessFeed(Tail(docs), ev, sn)
         ELSE ProcessFeed(Tail(docs), Append(ev, FeedItem(doc)), sn \cup {doc.url})

---------------------------------------------------------------------------
(* verifier_agent.py: parsing the reasoning output *)

\* first position from i on that holds no white space (Len(s) + 1 if none): \s*
RECURSIVE SkipSpaces(_, _)
SkipSpaces(s, i) == IF i <= Len(s) /\ IsSpace(s[i]) THEN SkipSpaces(s, i + 1) ELSE i

\* first position from i on that holds no digit: [0-9]*
RECURSIVE SkipDigits(_, _)
SkipDigits(s, i) == IF i <= Len(s) /\ IsDigit(s[i]) THEN SkipDigits(s, i + 1) ELSE i

\* positions where the label stands, compared as the pattern's flags say
LabelAt(s, i, label, ignorecase) ==
    /\ i + Len(label) - 1 <= Len(s)
    /\ LET got == SubSeq(s, i, i + Len(label) - 1)
       IN  IF ignorecase THEN Fold(got) = Fold(label) ELSE got = label

VerdictWords == { <<"t","r","u","e">>, <<"f","a","l","s","e">>, <<"m","i","x","e","d">> }

\* re.search(r"VERDICT:\s*(TRUE|FALSE|MIXED)", output, re.I): group(1) or None
VerdictLabel == <<"V","E","R","D","I","C","T",":">>
VerdictGroupAt(s, i) ==
    LET j == SkipSpaces(s, i + Len(VerdictLabel))
        ws == {w \in VerdictWords :
                 j + Len(w) - 1 <= Len(s) /\ Fold(SubSeq(s, j, j + Len(w) - 1)) = w}
    IN  IF LabelAt(s, i, VerdictLabel, TRUE) /\ ws # {}
        THEN Str(SubSeq(s, j, j + Len(CHOOSE w \in ws : TRUE) - 1))
        ELSE None
VerdictSearch(s) ==
    LET hits == {i \in 1..Len(s) : VerdictGroupAt(s, i) # None}
    IN  IF hits = {} THEN None ELSE VerdictGroupAt(s, MinOf(hits))

\* re.search(r"CONFIDENCE:\s*([0-9]*\.?[0-9]+)", output): group(1) or None.
\* The group is the digits, a point and the digits after it when a digit
\* follows the point; otherwise the leading digits alone, when there are any.
ConfidenceLabel == <<"C","O","N","F","I","D","E","N","C","E",":">>
ConfidenceGroupAt(s, i) ==
    LET j == SkipSpaces(s, i + Len(ConfidenceLabel))
        a == SkipDigits(s, j)
        b == SkipDigits(s, a + 1)
    IN  IF ~LabelAt(s, i, ConfidenceLabel, FALSE) THEN None
        ELSE IF a <= Len(s) /\ s[a] = "." /\ b > a + 1 THEN Str(SubSeq(s, j, b - 1))
        ELSE IF a > j THEN Str(SubSeq(s, j, a - 1))
        ELSE None
ConfidenceSearch(s) ==
    LET hits == {i \in 1..Len(s) : ConfidenceGroupAt(s, i) # None}
    IN  IF hits = {} THEN None ELSE ConfidenceGroupAt(s, MinOf(hits))

\* re.search(r"REASON:\s*(.+)", output, re.DOTALL): group(1) or None; the
\* group runs to the end of the output and needs one character at least
ReasonLabel == <<"R","E","A","S","O","N",":">>
ReasonGroupAt(s, i) ==
    LET j == SkipSpaces(s, i + Len(ReasonLabel))
    IN  IF LabelAt(s, i, ReasonLabel, FALSE) /\ i + Len(ReasonLabel) <= Len(s)
        THEN (IF j <= Len(s) THEN Str(SubSeq(s, j, Len(s)))
              ELSE Str(SubSeq(s, Len(s), Len(s))))
        ELSE None
ReasonSearch(s) ==
    LET hits == {i \in 1..Len(s) : ReasonGroupAt(s, i) # None}
    IN  IF hits = {} THEN None ELSE ReasonGroupAt(s, MinOf(hits))

Pow10(n) == IF n = 0 THEN 1 ELSE IF n = 1 THEN 10 ELSE IF n = 2 THEN 100
            ELSE IF n = 3 THEN 1000 ELSE 10000

\* float(text) in units of 1/10000, for texts of at most four decimals
RECURSIVE DigitsValue(_)
DigitsValue(ds) == IF ds = <<>> THEN 0
                   ELSE 10 * DigitsValue(SubSeq(ds, 1, Len(ds) - 1)) + DigitVal(ds[Len(ds)])
Float(text) ==
    LET p == SkipDigits(text, 1)
        whole == SubSeq(text, 1, p - 1)
        frac == IF p <= Len(text) THEN SubSeq(text, p + 1, Len(text)) ELSE <<>>
    IN  DigitsValue(whole) * 10000 + DigitsValue(frac) * Pow10(4 - Len(frac))

\* round(confidence, 3): from 1/10000 to thousandths (no text of the model
\* ends in a fourth decimal 5, where the binary value decides)
Round3(x) == (x + 5) \div 10

Unverified == <<"u","n","v","e","r","i","f","i","e","d">>
AnalysisCompleted == <<"A","n","a","l","y","s","i","s"," ","c","o","m","p","l","e","t","e","d">>
ServiceError == <<"S","e","r","v","i","c","e"," ","e","r","r","o","r">>
ServiceUnavailable == <<"V","e","r","i","f","i","c","a","t","i","o","n"," ","s","e","r","v","i","c","e"," ","u","n","a","v","a","i","l","a","b","l","e">>

DefaultConfidence == 5000
FallbackConfidence == 3000

\* a parse that reads the groups without testing the matches: a missing field
\* raises, and the except clause answers
ParseOutputUnguarded(content) ==
    LET out == Strip(content)
        v == VerdictSearch(out)
        c == ConfidenceSearch(out)
        r == ReasonSearch(out)
    IN  IF v = None \/ c = None \/ r = None
        THEN [verdict |-> Unverified, confidence |-> FallbackConfidence, reason |-> ServiceError]
        ELSE [verdict |-> Lower(v.str), confidence |-> Float(c.str), reason |-> Strip(r.str)]

\* the three patterns on the stripped output
ParseOutput(content) ==
    LET out == Strip(content)
        v == VerdictSearch(out)
        c == ConfidenceSearch(out)
        r == ReasonSearch(out)
    IN  [verdict |-> IF v # None THEN Lower(v.str) ELSE Unverified,
         confidence |-> IF c # None THEN Float(c.str) ELSE DefaultConfidence,
         reason |-> IF r # None THEN Strip(r.str) ELSE AnalysisCompleted]

\* what groq_client.chat.completions.create can do: raise (transport error,
\* timeout), or return a response without choices, with content None, or with text
Raised == [kind |-> "raised"]
NoChoices == [kind |-> "no_choices"]
NoContent == [kind |-> "no_content"]
Text(t) == [kind |-> "text", text |-> t]

\* an absent client handled like a failed call
SynthesisAbsentAsError(client, outcome) ==
    IF client # None /\ outcome.kind = "text"
    THEN ParseOutput(outcome.text)
    ELSE [verdict |-> Unverified, confidence |-> FallbackConfidence, reason |-> ServiceError]

\* a try that covers the call alone: a malformed response falls to the defaults
SynthesisNarrowTry(client, outcome) ==
    IF client = None
    THEN [verdict |-> Unverified, confidence |-> FallbackConfidence, reason |-> ServiceUnavailable]
    ELSE IF outcome.kind = "text" THEN ParseOutput(outcome.text)
    ELSE IF outcome.kind = "raised"
         THEN [verdict |-> Unverified, confidence |-> FallbackConfidence, reason |-> ServiceError]
         ELSE [verdict |-> Unverified, confidence |-> DefaultConfidence, reason |-> AnalysisCompleted]

\* the if / try / except around the reasoning call; outcome is None when no
\* call is made
Synthesis(client, outcome) ==
    IF client = None
    THEN [verdict |-> Unverified, confidence |-> FallbackConfidence, reason |-> ServiceUnavailable]
    ELSE IF outcome.kind = "text"
         THEN ParseOutput(outcome.text)
         ELSE [verdict |-> Unverified, confidence |-> FallbackConfidence, reason |-> ServiceError]

\* a result that carries the whole evidence list
VerificationResultUncapped(c, syn, ev) ==
    [claim |-> c, verdict |-> syn.verdict, confidence |-> Round3(syn.confidence),
     rationale |-> syn.reason, evidence |-> ev]

VerificationResult(c, syn, ev) ==
    [claim |-> c, verdict |-> syn.verdict, confidence |-> Round3(syn.confidence),
     rationale |-> syn.reason, evidence |-> Take(ev, EvidenceCap)]

---------------------------------------------------------------------------
(* What the collaborators may answer *)

HttpsA == <<"https:", "", "a.in", "1">>
HttpsC == <<"https:", "", "c.in", "3">>
BareD == <<"d.in", "4">>
HttpsN == <<"https:", "", "n.in", "9">>

Doc(url, title, score, content, published, date) ==
    [url |-> url, title |-> title, score |-> score, content |-> content,
     published |-> published, date |-> date]

D1 == Doc(HttpsA, <<"A">>, 40, 2000, Str("2025-11-01"), None)
D2 == Doc(EmptyStr, <<"B">>, 90, 300, None, Str("2025-10-30"))
D3 == Doc(HttpsC, <<"C">>, 91, 300, None, None)
D4 == Doc(BareD, <<"D">>, 10, 300, None, None)

FeedDoc(url, title, content, published) ==
    [url |-> url, title |-> title, content |-> content, published |-> published]

F1 == FeedDoc(HttpsA, <<"A again">>, 100, Str("2025-11-20"))
F2 == FeedDoc(EmptyStr, <<"N2">>, 100, Str("2025-11-21"))
F3 == FeedDoc(EmptyStr, <<"N3">>, 2500, Str("2025-11-22"))
F4 == FeedDoc(HttpsN, <<"N4">>, 100, Str("2025-11-23"))

ResultLists == { <<>>, <<D1, D2>>, <<D3, D1>>, <<D4, D2>> }
FeedLists == { <<>>, <<F1, F2>>, <<F3, F4>> }

\* a feed entry without link whose title the dataset holds too, without url
F5 == FeedDoc(EmptyStr, <<"B">>, 100, Str("2025-11-24"))

\* numbered documents of the dataset and of the feed, to fill long result lists
NumberedDoc(i) == Doc(<<"https:", "", "n.in", ToString(i)>>, <<"N", ToString(i)>>, 50, 300, None, None)
NumberedFeedDoc(i) == FeedDoc(<<"https:", "", "f.in", ToString(i)>>, <<"F", ToString(i)>>, 100, Str("2025-11-25"))
BulkResults(a, b) == [k \in 1..(b - a + 1) |-> NumberedDoc(a + k - 1)]
BulkFeed(a, b) == [k \in 1..(b - a + 1) |-> NumberedFeedDoc(a + k - 1)]

\* result lists and feeds of the aggregation runs: two long overlapping result
\* lists, and feeds with entries without link
AggResultLists ==
    { <<>>, <<D1, D2>>, <<D3, D1>>, <<D4, D2>>,
      BulkResults(1, BulkLen), BulkResults(BulkLen \div 2 + 1, BulkLen + BulkLen \div 2) }
AggFeedLists == { <<>>, <<F1, F2>>, <<F2, F3>>, <<F5, F4>>, BulkFeed(1, BulkLen \div 2) }

\* lines a reasoning output may be made of
LineVerdictTrue == <<"V","E","R","D","I","C","T",":"," ","T","R","U","E">>
LineVerdictLower == <<"v","e","r","d","i","c","t",":"," ","F","a","l","s","e">>
LineVerdictLongS == <<"V","E","R","D","I","C","T",":"," ","F","A","L",LongS,"E">>
LineVerdictOther == <<"V","E","R","D","I","C","T",":"," ","U","N","S","U","R","E">>
LineConfidence == <<"C","O","N","F","I","D","E","N","C","E",":"," ","0",".","8","5","6","7">>
LineConfidenceLower == <<"c","o","n","f","i","d","e","n","c","e",":"," ","0",".","9">>
LineConfidencePercent == <<"C","O","N","F","I","D","E","N","C","E",":"," ","9","5">>
LineConfidenceWord == <<"C","O","N","F","I","D","E","N","C","E",":"," ","h","i","g","h">>
LineReason == <<"R","E","A","S","O","N",":"," ","o","k">>
LineReasonLower == <<"r","e","a","s","o","n",":"," ","o","k">>
LineReasonBare == <<"R","E","A","S","O","N",":">>
LineNote == <<"N","o","t","e">>

RECURSIVE JoinLines(_)
JoinLines(ls) == IF ls = <<>> THEN <<>>
                 ELSE IF Len(ls) = 1 THEN ls[1]
                 ELSE ls[1] \o <<"\n">> \o JoinLines(Tail(ls))

Outcomes ==
    { Raised, NoChoices, NoContent,
      Text(JoinLines(<<LineVerdictTrue, LineConfidence, LineReason>>)),
      Text(JoinLines(<<LineVerdictLower, LineConfidenceLower, LineReasonLower>>)),
      Text(JoinLines(<<LineNote>>)) }

---------------------------------------------------------------------------
(* The request *)

\* the hash seeds an interpreter may start with
Seeds == {"a", "b"}

Client == [obj |-> "Groq"]
Manager == [obj |-> "FAISSManager"]

Init ==
    /\ entry \in {"workflow", "direct"}
    /\ claim \in (IF entry = "workflow" THEN Claims ELSE {Str(c) : c \in NamedClaims})
    /\ groq_client \in {Client, None}
    /\ faiss_manager \in {Manager, None}
    /\ pc = "start"
    /\ state = None
    /\ step = 0
    /\ final = None
    /\ calls = <<>>
    /\ qi = 1
    /\ evidence = <<>>
    /\ seen = {}
    /\ output = None
    /\ result = None
    /\ retrieved = <<>>
    /\ hashseed \in Seeds
    /\ detections = <<>>
    /\ scored = None
    /\ NoCalls /\ NoVoice /\ explained = None

\* run_verification_workflow up to verification_graph.invoke(initial_state):
\* the graph starts at its entry point "detect"
run_verification_workflow ==
    /\ pc = "start" /\ entry = "workflow"
    /\ state' = initial_state(claim)
    /\ step' = 0
    /\ pc' = "detect"
    /\ UNCHANGED <<entry, claim, final, calls, groq_client, faiss_manager,
                   qi, evidence, seen, output, result, retrieved, detector_vars>>

\* one superstep running node "detect", then its conditional edge
DetectNode ==
    /\ pc = "detect" /\ step < RecursionLimit
    /\ LET s2 == detect_claim(state, hashseed)
       IN  state' = s2 /\ pc' = should_verify(s2)
    /\ step' = step + 1
    /\ calls' = Append(calls, "detect")
    /\ UNCHANGED <<entry, claim, final, groq_client, faiss_manager,
                   qi, evidence, seen, output, result, retrieved, detector_vars>>

\* one superstep running node "verify" up to its call of
\* verifier_agent.verify_claim; when the call does not bind, the except branch
\* runs, the edge to END is taken and invoke returns the state
VerifyNode ==
    /\ pc = "verify" /\ step < RecursionLimit
    /\ step' = step + 1
    /\ calls' = Append(calls, "verify")
    /\ IF ~CallBinds(VerifierParams, NodeCallPositional, NodeCallKeywords)
       THEN LET s2 == verify_claim_failed(state, TypeError)
            IN  state' = s2 /\ final' = s2 /\ pc' = "returned"
                /\ UNCHANGED <<qi, evidence, seen>>
       ELSE /\ pc' = "search" /\ qi' = 1 /\ evidence' = <<>> /\ seen' = {}
            /\ UNCHANGED <<state, final>>
    /\ UNCHANGED <<entry, claim, groq_client, faiss_manager, output, result, retrieved, detector_vars>>

\* an invoke outside the try: the error leaves run_verification_workflow
InvokePropagates ==
    /\ pc \in {"detect", "verify"} /\ step >= RecursionLimit
    /\ pc' = "raised"
    /\ UNCHANGED <<entry, claim, state, step, final, calls, groq_client, faiss_manager,
                   qi, evidence, seen, output, result, retrieved, detector_vars>>

\* invoke raises once the recursion limit is used up with a node still to
\* run; run_verification_workflow catches it and returns error_state
InvokeRaises ==
    /\ pc \in {"detect", "verify"} /\ step >= RecursionLimit
    /\ final' = error_state(claim, GraphRecursionError)
    /\ pc' = "returned"
    /\ UNCHANGED <<entry, claim, state, step, calls, groq_client, faiss_manager,
                   qi, evidence, seen, output, result, retrieved, detector_vars>>

\* a caller outside the graph (ui_routes.verify_claim) calls
\* verifier_agent.verify_claim(claim_text)
verify_claim_call ==
    /\ pc = "start" /\ entry = "direct"
    /\ pc' = "search" /\ qi' = 1 /\ evidence' = <<>> /\ seen' = {}
    /\ UNCHANGED <<entry, claim, state, step, final, calls, groq_client,
                   faiss_manager, output, result, retrieved, detector_vars>>

\* an entry of the history: the retrieval call raised or returned docs, and
\* the evidence held n items after it
Retrieval(kind, raised, docs, n) == [kind |-> kind, raised |-> raised, docs |-> docs, n |-> n]

\* a single try around the whole loop over the queries: the first search that
\* raises ends the loop
SearchAborts(lists, log) ==
    /\ pc = "search" /\ qi <= Len(all_queries(claim.str))
    /\ \/ /\ calls' = IF faiss_manager = None THEN calls ELSE Append(calls, "search")
          /\ retrieved' = IF log THEN Append(retrieved, Retrieval("search", TRUE, <<>>, Len(evidence)))
                          ELSE retrieved
          /\ pc' = "feed"
          /\ UNCHANGED <<evidence, seen>>
       \/ /\ faiss_manager # None
          /\ calls' = Append(calls, "search")
          /\ pc' = IF qi + 1 > Len(all_queries(claim.str)) THEN "feed" ELSE "search"
          /\ \E results \in lists :
               LET r == ProcessResults(results, evidence, seen)
               IN  /\ evidence' = r.evidence /\ seen' = r.seen
                   /\ retrieved' = IF log THEN Append(retrieved,
                                                      Retrieval("search", FALSE, results, Len(r.evidence)))
                                   ELSE retrieved
    /\ qi' = qi + 1
    /\ UNCHANGED <<entry, claim, state, step, final, groq_client, faiss_manager,
                   output, result, detector_vars>>

\* one turn of "for query in all_queries": the search raises (an absent
\* manager raises before any call goes out), or returns results
Search(lists, log) ==
    /\ pc = "search" /\ qi <= Len(all_queries(claim.str))
    /\ \/ /\ calls' = IF faiss_manager = None THEN calls ELSE Append(calls, "search")
          /\ retrieved' = IF log THEN Append(retrieved, Retrieval("search", TRUE, <<>>, Len(evidence)))
                          ELSE retrieved
          /\ UNCHANGED <<evidence, seen>>
       \/ /\ faiss_manager # None
          /\ calls' = Append(calls, "search")
          /\ \E results \in lists :
               LET r == ProcessResults(results, evidence, seen)
               IN  /\ evidence' = r.evidence /\ seen' = r.seen
                   /\ retrieved' = IF log THEN Append(retrieved,
                                                      Retrieval("search", FALSE, results, Len(r.evidence)))
                                   ELSE retrieved
    /\ qi' = qi + 1
    /\ pc' = IF qi + 1 > Len(all_queries(claim.str)) THEN "feed" ELSE "search"
    /\ UNCHANGED <<entry, claim, state, step, final, groq_client, faiss_manager,
                   output, result, detector_vars>>

\* rss_parser.fetch_recent raises, or returns the feed items
Feed(lists, log) ==
    /\ pc = "feed"
    /\ calls' = Append(calls, "feed")
    /\ \/ /\ retrieved' = IF log THEN Append(retrieved, Retrieval("feed", TRUE, <<>>, Len(evidence)))
                          ELSE retrieved
          /\ UNCHANGED <<evidence, seen>>
       \/ \E docs \in lists :
            LET r == ProcessFeed(docs, evidence, seen)
            IN  /\ evidence' = r.evidence /\ seen' = r.seen
                /\ retrieved' = IF log THEN Append(retrieved,
                                                   Retrieval("feed", FALSE, docs, Len(r.evidence)))
                                ELSE retrieved
    /\ pc' = "reason"
    /\ UNCHANGED <<entry, claim, state, step, final, groq_client, faiss_manager,
                   qi, output, result, detector_vars>>

\* a reasoning call repeated once after it raised
SynthesizeRetry(outcomes) ==
    /\ pc = "reason"
    /\ \E o \in (IF groq_client = None THEN {None} ELSE outcomes) :
         /\ output' = o
         /\ calls' = IF groq_client = None THEN calls
                     ELSE IF o = Raised THEN calls \o <<"reason", "reason">>
                     ELSE Append(calls, "reason")
         /\ LET res == VerificationResult(claim.str, Synthesis(groq_client, o), evidence)
            IN  /\ result' = res
                /\ IF entry = "workflow"
                   THEN LET s2 == verify_claim_done(state, res)
                        IN  state' = s2 /\ final' = s2 /\ pc' = "returned"
                   ELSE pc' = "done" /\ UNCHANGED <<state, final>>
    /\ UNCHANGED <<entry, claim, step, groq_client, faiss_manager, qi, evidence, seen, retrieved, detector_vars>>

\* the reasoning call (none without a client), the parse and the return; under
\* the graph the verify node then stores the result, the edge to END is taken
\* and invoke returns the state
Synthesize(outcomes) ==
    /\ pc = "reason"
    /\ \E o \in (IF groq_client = None THEN {None} ELSE outcomes) :
         /\ output' = o
         /\ calls' = IF groq_client = None THEN calls ELSE Append(calls, "reason")
         /\ LET res == VerificationResult(claim.str, Synthesis(groq_client, o), evidence)
            IN  /\ result' = res
                /\ IF entry = "workflow"
                   THEN LET s2 == verify_claim_done(state, res)
                        IN  state' = s2 /\ final' = s2 /\ pc' = "returned"
                   ELSE pc' = "done" /\ UNCHANGED <<state, final>>
    /\ UNCHANGED <<entry, claim, step, groq_client, faiss_manager, qi, evidence, seen, retrieved, detector_vars>>

Next ==
    \/ run_verification_workflow
    \/ DetectNode
    \/ VerifyNode
    \/ InvokeRaises
    \/ verify_claim_call
    \/ Search(ResultLists, FALSE)
    \/ Feed(FeedLists, FALSE)
    \/ Synthesize(Outcomes)

Spec == Init /\ [][Next]_vars

---------------------------------------------------------------------------
(* Direct verification requests over every reasoning output of up to
   MaxOutputLines lines *)

OutputLines ==
    { LineVerdictTrue, LineVerdictLower, LineVerdictLongS, LineVerdictOther,
      LineConfidence, LineConfidenceLower, LineConfidencePercent, LineConfidenceWord,
      LineReason, LineReasonLower, LineReasonBare, LineNote }

AllOutcomes ==
    { Raised, NoChoices, NoContent }
    \cup { Text(JoinLines(ls)) : ls \in SeqsUpTo(OutputLines, MaxOutputLines) }

InitParse ==
    /\ entry = "direct"
    /\ claim = Str(PlainClaim)
    /\ groq_client = Client
    /\ faiss_manager = Manager
    /\ pc = "start"
    /\ state = None
    /\ step = 0
    /\ final = None
    /\ calls = <<>>
    /\ qi = 1
    /\ evidence = <<>>
    /\ seen = {}
    /\ output = None
    /\ result = None
    /\ retrieved = <<>>
    /\ hashseed = "a"
    /\ detections = <<>>
    /\ scored = None
    /\ NoCalls /\ NoVoice /\ explained = None

NextParse ==
    \/ verify_claim_call
    \/ Search({<<>>}, FALSE)
    \/ Feed({<<F4>>}, FALSE)
    \/ Synthesize(AllOutcomes)

SpecParse == InitParse /\ [][NextParse]_vars

---------------------------------------------------------------------------
(* Direct verification requests with the history of the retrieval calls *)

InitAgg ==
    /\ entry = "direct"
    /\ claim = Str(PlainClaim)
    /\ groq_client = None
    /\ faiss_manager \in {Manager, None}
    /\ pc = "start"
    /\ state = None
    /\ step = 0
    /\ final = None
    /\ calls = <<>>
    /\ qi = 1
    /\ evidence = <<>>
    /\ seen = {}
    /\ output = None
    /\ result = None
    /\ retrieved = <<>>
    /\ hashseed = "a"
    /\ detections = <<>>
    /\ scored = None
    /\ NoCalls /\ NoVoice /\ explained = None

NextAgg ==
    \/ verify_claim_call
    \/ Search(AggResultLists, TRUE)
    \/ Feed(AggFeedLists, TRUE)
    \/ Synthesize(Outcomes)

SpecAgg == InitAgg /\ [][NextAgg]_vars

---------------------------------------------------------------------------
(* Calls of the detector: detector_agent.detect on a claim, up to MaxRuns
   times, in one interpreter or in several, and the scoring methods on every
   combination of the signals they read *)

request_vars == <<claim, pc, state, step, final, calls, groq_client, faiss_manager,
                  qi, evidence, seen, output, result, retrieved>>

InitDetect ==
    /\ entry \in {"detector", "scoring"}
    /\ claim \in (IF entry = "detector" THEN DetectClaims ELSE {None})
    /\ hashseed \in (IF entry = "detector" THEN Seeds ELSE {"a"})
    /\ groq_client = Client
    /\ faiss_manager = Manager
    /\ pc = "start"
    /\ state = None
    /\ step = 0
    /\ final = None
    /\ calls = <<>>
    /\ qi = 1
    /\ evidence = <<>>
    /\ seen = {}
    /\ output = None
    /\ result = None
    /\ retrieved = <<>>
    /\ detections = <<>>
    /\ scored = None
    /\ NoCalls /\ NoVoice /\ explained = None

\* detector_agent.detect(claim) in the running interpreter
Detect ==
    /\ entry = "detector" /\ Len(detections) < MaxRuns
    /\ detections' = Append(detections, [seed |-> hashseed, outcome |-> detect(claim, hashseed)])
    /\ UNCHANGED <<entry, request_vars, hashseed, scored, frame_vars, voice_vars, explained>>

\* the server is started anew: the new interpreter draws another hash seed
Restart ==
    /\ entry = "detector" /\ detections # <<>> /\ Len(detections) < MaxRuns
    /\ hashseed' \in Seeds \ {hashseed}
    /\ UNCHANGED <<entry, request_vars, detections, scored, frame_vars, voice_vars, explained>>

ClaimTypes == {"question", "numerical_claim", "action_claim", "narrative_claim"}

\* the elements of items whose place is in S, in the order of items
Pick(items, S) ==
    LET RECURSIVE from(_)
        from(k) == IF k > Len(items) THEN <<>>
                   ELSE (IF k \in S THEN <<items[k]>> ELSE <<>>) \o from(k + 1)
    IN  from(1)

\* what _identify_supporting_evidence_types and _extract_temporal_indicators
\* can return: types in the order of the dict, one indicator of a category in
\* the order of the dict, cut to 3
SupportingLists ==
    {Slice(Pick([k \in DOMAIN SUPPORT_EVIDENCE_INDICATORS |-> SUPPORT_EVIDENCE_INDICATORS[k].type], S), 3) :
        S \in SUBSET DOMAIN SUPPORT_EVIDENCE_INDICATORS}
TemporalLists ==
    {Slice(Pick([k \in DOMAIN TEMPORAL_INDICATORS |-> TEMPORAL_INDICATORS[k].indicators[1]], S), 3) :
        S \in SUBSET DOMAIN TEMPORAL_INDICATORS}

\* _score_risk, _score_confidence, _calculate_evidence_confidence and the
\* adjustment of detect on one combination of signals
Score ==
    /\ entry = "scoring" /\ scored = None
    /\ \E claim_type \in ClaimTypes, emergency \in BOOLEAN, big_number \in BOOLEAN,
          long \in BOOLEAN, quantitative \in BOOLEAN, entity_count \in 0..5,
          supporting_types \in SupportingLists, temporal_indicators \in TemporalLists :
         LET sum == risk_sum(claim_type, emergency, big_number, long, quantitative)
             risk == risk_clamp(sum)
             confidence == _score_confidence(claim_type, risk, entity_count)
             evidence_bonus == _calculate_evidence_confidence(supporting_types, temporal_indicators)
         IN  scored' = [claim_type |-> claim_type, emergency |-> emergency,
                        big_number |-> big_number, long |-> long, quantitative |-> quantitative,
                        entity_count |-> entity_count, supporting_types |-> supporting_types,
                        temporal_indicators |-> temporal_indicators,
                        sum |-> sum, risk_score |-> risk, base_confidence |-> confidence,
                        evidence_bonus |-> evidence_bonus,
                        confidence |-> adjusted_confidence(confidence, evidence_bonus)]
    /\ UNCHANGED <<entry, request_vars, hashseed, detections, frame_vars, voice_vars, explained>>

NextDetect == Detect \/ Restart \/ Score

SpecDetect == InitDetect /\ [][NextDetect]_vars

---------------------------------------------------------------------------
(* Calls of the transition functions on dict objects.  A dict and a list are
   objects of the heap, named by their address; the "messages" entry of a
   state dict holds the address of its list, so that a change made in place
   shows in every dict that shares the object *)

MaxCalls == 3

Ref(a) == [ref |-> a]
DictObject(items) == [kind |-> "dict", items |-> items]
ListObject(items) == [kind |-> "list", items |-> items]

\* a new object: the heap with it, and its address
Alloc(h, obj) == [heap |-> Append(h, obj), ret |-> Len(h) + 1]

\* state["messages"].append(...): the elements are added to the list in place
ListConcatInPlace(h, l, elems) ==
    [heap |-> [h EXCEPT ![l] = ListObject(h[l].items \o elems)], ret |-> l]

\* state["messages"] + [...]: a new list
ListConcat(h, l, elems) == Alloc(h, ListObject(h[l].items \o elems))

\* {**state, ...}: a new dict with the entries of state (values that are
\* objects are shared, not copied) and the entries given
DictDisplay(h, a, ov) == Alloc(h, DictObject(Update(h[a].items, ov)))

\* the list object of state["messages"]
MessagesOf(h, a) == h[a].items.messages.ref

\* {**state, ..., "messages": state["messages"] + [message]}
WithMessage(h, a, ov, message, lst) ==
    DictDisplay(lst.heap, a, Update(ov, [messages |-> Ref(lst.ret)]))

update_messages(h, a, message) ==
    WithMessage(h, a, <<>>, message, ListConcat(h, MessagesOf(h, a), <<message>>))

heap_set_detection_result(h, a, detection_result) ==
    DictDisplay(h, a, [detection_result |-> detection_result,
                       search_queries |-> IF detection_result # None
                                          THEN List(detection_result.search_queries)
                                          ELSE None])

heap_set_verification_result(h, a, verification_result) ==
    DictDisplay(h, a, [verification_result |-> verification_result])

\* detect_claim after detector_agent.detect returned or raised
DetectedInto(h, a, r, updated_state) ==
    DictDisplay(updated_state.heap, updated_state.ret,
                [should_continue |-> TRUE, next_node |-> Str("verify")])
DetectFailed(h, a, message) ==
    WithMessage(h, a, [should_continue |-> FALSE, verification_result |-> None],
                message, ListConcat(h, MessagesOf(h, a), <<message>>))
heap_detect_claim_after(h, a, r) ==
    IF r.ok
    THEN DetectedInto(h, a, r, heap_set_detection_result(h, a, r.value))
    ELSE DetectFailed(h, a, SystemMessage("Detection failed with error: ", r.error))
heap_detect_claim(h, a, seed) == heap_detect_claim_after(h, a, detect(h[a].items.claim, seed))

\* verify_claim after verifier_agent.verify_claim returned or raised
VerifiedInto(h, a, r, updated_state) ==
    DictDisplay(updated_state.heap, updated_state.ret,
                [should_continue |-> FALSE, retrieved_evidence |-> List(r.value.evidence)])
VerifyFailed(h, a, message) ==
    WithMessage(h, a, [should_continue |-> FALSE, verification_result |-> None],
                message, ListConcat(h, MessagesOf(h, a), <<message>>))
heap_verify_claim(h, a, r) ==
    IF r.ok
    THEN VerifiedInto(h, a, r, heap_set_verification_result(h, a, r.value))
    ELSE VerifyFailed(h, a, SystemMessage("Verification failed with error: ", r.error))

\* a result of the verifier without evidence, and what the call of the verify
\* node gives: the call does not bind, so it raises
PlainResult(c) == VerificationResult(c.str, Synthesis(None, Raised), <<>>)
VerifierOutcomes(c) ==
    IF CallBinds(VerifierParams, NodeCallPositional, NodeCallKeywords)
    THEN {[ok |-> TRUE, value |-> PlainResult(c)]}
    ELSE {[ok |-> FALSE, error |-> TypeError]}

UserMessage == [role |-> "user", content |-> <<"hello">>]

\* a claim the detector accepts and one it refuses
FrameClaims == {Str(PlainClaim), Str(ShortClaim)}

\* the heap holds the initial state and its empty messages list
InitFrame ==
    /\ entry = "frame"
    /\ claim \in FrameClaims
    /\ hashseed \in Seeds
    /\ heap = <<ListObject(<<>>), DictObject(Update(initial_state(claim), [messages |-> Ref(1)]))>>
    /\ call = None
    /\ groq_client = Client
    /\ faiss_manager = Manager
    /\ pc = "start"
    /\ state = None
    /\ step = 0
    /\ final = None
    /\ calls = <<>>
    /\ qi = 1
    /\ evidence = <<>>
    /\ seen = {}
    /\ output = None
    /\ result = None
    /\ retrieved = <<>>
    /\ detections = <<>>
    /\ scored = None
    /\ NoVoice /\ explained = None

CallNr == IF call = None THEN 0 ELSE call.nr

\* the states a call may be given: the initial state or the state the last
\* call returned
Arguments == {2} \cup (IF call = None THEN {} ELSE {call.ret})

\* the call fn(state at a) returned r: the heap before the call is kept
Called(fn, a, r) ==
    /\ heap' = r.heap
    /\ call' = [fn |-> fn, arg |-> a, ret |-> r.ret, before |-> heap, nr |-> CallNr + 1]
    /\ UNCHANGED <<entry, request_vars, hashseed, detections, scored, voice_vars, explained>>

CallUpdateMessages ==
    /\ entry = "frame" /\ CallNr < MaxCalls
    /\ \E a \in Arguments : Called("update_messages", a, update_messages(heap, a, UserMessage))

CallSetDetectionResult ==
    /\ entry = "frame" /\ CallNr < MaxCalls
    /\ \E a \in Arguments, known \in BOOLEAN :
         /\ known => detect(claim, hashseed).ok
         /\ Called("set_detection_result", a,
                   heap_set_detection_result(heap, a,
                       IF known THEN detect(claim, hashseed).value ELSE None))

CallSetVerificationResult ==
    /\ entry = "frame" /\ CallNr < MaxCalls
    /\ \E a \in Arguments, verification_result \in {None, PlainResult(claim)} :
         Called("set_verification_result", a,
                heap_set_verification_result(heap, a, verification_result))

CallDetectClaim ==
    /\ entry = "frame" /\ CallNr < MaxCalls
    /\ \E a \in Arguments : Called("detect_claim", a, heap_detect_claim(heap, a, hashseed))

CallVerifyClaim ==
    /\ entry = "frame" /\ CallNr < MaxCalls
    /\ \E a \in Arguments, r \in VerifierOutcomes(claim) :
         Called("verify_claim", a, heap_verify_claim(heap, a, r))

NextFrame ==
    \/ CallUpdateMessages
    \/ CallSetDetectionResult
    \/ CallSetVerificationResult
    \/ CallDetectClaim
    \/ CallVerifyClaim

SpecFrame == InitFrame /\ [][NextFrame]_vars

---------------------------------------------------------------------------
(* explainer_agent.py: VoiceManager.speak called from MaxThreads threads on
   the one VoiceManager instance.  A thread may be switched between any two
   reads or writes of an attribute, so each is a step of its own *)

MaxThreads == 2

Threads == 1..MaxThreads
Engine == [py |-> "Engine"]

InitVoice ==
    /\ entry = "voice"
    /\ tts_engine \in {Engine, None}
    /\ is_speaking = FALSE
    /\ vpc = [t \in Threads |-> "idle"]
    /\ returned = [t \in Threads |-> None]
    /\ claim = None
    /\ hashseed = "a"
    /\ groq_client = Client
    /\ faiss_manager = Manager
    /\ pc = "start"
    /\ state = None
    /\ step = 0
    /\ final = None
    /\ calls = <<>>
    /\ qi = 1
    /\ evidence = <<>>
    /\ seen = {}
    /\ output = None
    /\ result = None
    /\ retrieved = <<>>
    /\ detections = <<>>
    /\ scored = None
    /\ NoCalls /\ explained = None

\* thread t moves to position at; a return value is given when it returns
Moves(t, at, value) ==
    /\ vpc' = [vpc EXCEPT ![t] = at]
    /\ returned' = [returned EXCEPT ![t] = value]
    /\ UNCHANGED <<entry, request_vars, hashseed, detections, scored, frame_vars, explained, tts_engine>>

\* speak_explanation: voice_manager.speak(text, "explainer")
SpeakCall(t) ==
    /\ entry = "voice" /\ vpc[t] \in {"idle", "returned"}
    /\ Moves(t, "engine", None)
    /\ UNCHANGED is_speaking

\* if self.tts_engine is None: return False
TestEngine(t) ==
    /\ entry = "voice" /\ vpc[t] = "engine"
    /\ IF tts_engine = None THEN Moves(t, "returned", [py |-> FALSE])
                            ELSE Moves(t, "test", None)
    /\ UNCHANGED is_speaking

\* if self.is_speaking: return False
TestSpeaking(t) ==
    /\ entry = "voice" /\ vpc[t] = "test"
    /\ IF is_speaking THEN Moves(t, "returned", [py |-> FALSE])
                      ELSE Moves(t, "set", None)
    /\ UNCHANGED is_speaking

\* self.is_speaking = True
SetSpeaking(t) ==
    /\ entry = "voice" /\ vpc[t] = "set"
    /\ is_speaking' = TRUE
    /\ Moves(t, "try", None)

\* self.tts_engine.say(text); self.tts_engine.runAndWait() begins
StartSpeech(t) ==
    /\ entry = "voice" /\ vpc[t] = "try"
    /\ Moves(t, "speaking", None)
    /\ UNCHANGED is_speaking

\* runAndWait returns, or the engine raises: the finally clause is next
EndSpeech(t) ==
    /\ entry = "voice" /\ vpc[t] = "speaking"
    /\ \E raised \in BOOLEAN : Moves(t, IF raised THEN "finally raising" ELSE "finally", None)
    /\ UNCHANGED is_speaking

\* finally: self.is_speaking = False; then return True, or the exception goes on
Finally(t) ==
    /\ entry = "voice" /\ vpc[t] \in {"finally", "finally raising"}
    /\ is_speaking' = FALSE
    /\ Moves(t, "returned", IF vpc[t] = "finally" THEN [py |-> TRUE] ELSE [py |-> "RuntimeError"])

speak(t) ==
    \/ TestEngine(t)
    \/ TestSpeaking(t)
    \/ SetSpeaking(t)
    \/ StartSpeech(t)
    \/ EndSpeech(t)
    \/ Finally(t)

NextVoice == \E t \in Threads : SpeakCall(t) \/ speak(t)

SpecVoice == InitVoice /\ [][NextVoice]_vars

---------------------------------------------------------------------------
(* explainer_agent.py: ExplainerAgent.explain on the VerificationResult of a
   direct verification request.  A str built by an f-string is the sequence
   of its parts *)

\* e.name on an EvidenceItem: the attributes are the fields of the dataclass
HasAttr(e, name) == name \in DOMAIN e
AttributeError(name) == <<"'EvidenceItem' object has no attribute ", name>>

Returns(v) == [ok |-> TRUE, value |-> v]
Raises(err) == [ok |-> FALSE, error |-> err]

\* e.source or e.title
SourceOrTitle(e) == IF e.source # None /\ e.source # EmptyStr THEN e.source ELSE e.title

\* [e.source or e.title for e in evidence if e.origin == "rss" and e.reliable],
\* the items from place k on, the sources found so far in acc
RECURSIVE RssSourcesFrom(_, _, _)
RssSourcesFrom(ev, k, acc) ==
    IF k > Len(ev) THEN Returns(acc)
    ELSE IF ev[k].origin # "rss" THEN RssSourcesFrom(ev, k + 1, acc)
    ELSE IF ~HasAttr(ev[k], "reliable") THEN Raises(AttributeError("reliable"))
    ELSE IF ~ev[k].reliable THEN RssSourcesFrom(ev, k + 1, acc)
    ELSE IF ~HasAttr(ev[k], "source") THEN Raises(AttributeError("source"))
    ELSE RssSourcesFrom(ev, k + 1, Append(acc, SourceOrTitle(ev[k])))
rss_sources(ev) == RssSourcesFrom(ev, 1, <<>>)

_build_explanation(verification) ==
    IF verification.verdict = <<"t","r","u","e">>
    THEN "This claim is correct according to verified sources."
    ELSE IF verification.verdict = <<"f","a","l","s","e">>
         THEN "This claim is false. Verified sources show no evidence supporting it."
         ELSE "No reliable information found; be cautious."

CountOrigin(ev, origin) == Cardinality({k \in DOMAIN ev : ev[k].origin = origin})

\* the points after the list of sources was built
KeyPoints(ev, sources) ==
    Take((IF sources # <<>> THEN << <<"Verified sources: ", sources>> >> ELSE <<>>)
         \o (IF CountOrigin(ev, "dataset") > 0
             THEN << <<"Checked ", CountOrigin(ev, "dataset"), " historical records">> >> ELSE <<>>)
         \o (IF CountOrigin(ev, "rss") > 0
             THEN << <<"Reviewed ", CountOrigin(ev, "rss"), " recent official updates">> >> ELSE <<>>)
         \o (IF CountOrigin(ev, "fact_check") > 0
             THEN << <<"Examined ", CountOrigin(ev, "fact_check"), " fact-checking reports">> >> ELSE <<>>),
         4)

_extract_key_points_of(ev, sources) ==
    IF sources.ok THEN Returns(KeyPoints(ev, sources.value)) ELSE sources
_extract_key_points(verification) ==
    _extract_key_points_of(verification.evidence, rss_sources(verification.evidence))

_summarize_sources_of(sources) ==
    IF ~sources.ok THEN sources
    ELSE IF sources.value = <<>> THEN Returns(<<"No verified sources available">>)
    ELSE IF Len(sources.value) = 1 THEN Returns(<<"Verified by: ", sources.value[1]>>)
    ELSE IF Len(sources.value) = 2
         THEN Returns(<<"Verified by: ", sources.value[1], " and ", sources.value[2]>>)
         ELSE Returns(<<"Verified by: ", Take(sources.value, Len(sources.value) - 1),
                        ", and ", sources.value[Len(sources.value)]>>)
_summarize_sources(verification) == _summarize_sources_of(rss_sources(verification.evidence))

\* confidence in thousandths
_build_confidence_note(confidence) ==
    IF confidence >= 800 THEN "High confidence - multiple reliable sources agree"
    ELSE IF confidence >= 600 THEN "Moderate confidence - sources generally agree"
    ELSE IF confidence >= 400 THEN "Low confidence - limited evidence available"
    ELSE "Very low confidence - insufficient evidence"

ExplanationResult(verification, key_points, sources_summary) ==
    [verdict |-> verification.verdict,
     explanation |-> _build_explanation(verification),
     key_points |-> key_points,
     sources_summary |-> sources_summary,
     confidence_note |-> _build_confidence_note(verification.confidence)]

\* explain: the first helper that raises ends the call
explain_with(verification, key_points, sources_summary) ==
    IF ~key_points.ok THEN key_points
    ELSE IF ~sources_summary.ok THEN sources_summary
    ELSE Returns(ExplanationResult(verification, key_points.value, sources_summary.value))
explain(verification) ==
    explain_with(verification, _extract_key_points(verification), _summarize_sources(verification))

InitExplain ==
    /\ entry = "direct"
    /\ claim = Str(PlainClaim)
    /\ groq_client \in {Client, None}
    /\ faiss_manager = Manager
    /\ pc = "start"
    /\ state = None
    /\ step = 0
    /\ final = None
    /\ calls = <<>>
    /\ qi = 1
    /\ evidence = <<>>
    /\ seen = {}
    /\ output = None
    /\ result = None
    /\ retrieved = <<>>
    /\ hashseed = "a"
    /\ detections = <<>>
    /\ scored = None
    /\ NoCalls /\ NoVoice /\ explained = None

\* explainer_agent.explain(verification_result) after verify_claim returned
Explain ==
    /\ entry = "direct" /\ pc = "done" /\ explained = None
    /\ explained' = explain(result)
    /\ UNCHANGED <<entry, request_vars, hashseed, detections, scored, frame_vars, voice_vars>>

NextExplain ==
    \/ verify_claim_call
    \/ Search(ResultLists, FALSE)
    \/ Feed(FeedLists, FALSE)
    \/ Synthesize(Outcomes)
    \/ Explain

SpecExplain == InitExplain /\ [][NextExplain]_vars

---------------------------------------------------------------------------
(* Properties *)

Count(log, x) == Cardinality({i \in DOMAIN log : log[i] = x})

\* the claim text as the caller gave it, and its trimmed length
ClaimText == IF claim = None THEN <<>> ELSE claim.str
TrimmedLen == Len(Strip(ClaimText))

Returned == entry = "workflow" /\ pc = "returned"

\* the detect node has run and left no detection result
DetectionFailed ==
    /\ entry = "workflow" /\ pc # "start"
    /\ Count(calls, "detect") > 0
    /\ state.detection_result = None

HasSystemMessage(s, prefix) ==
    \E i \in DOMAIN s.messages :
        s.messages[i].role = "system" /\ s.messages[i].content[1] = prefix

FailurePrefixes == {"Detection failed with error: ", "Verification failed with error: ",
                    "Workflow execution failed with error: "}

\* C1: for a claim of at least 8 trimmed characters the workflow runs detect
\* then verify and returns a state with a verification result and
\* should_continue false.
C1_ValidClaimGetsResult ==
    (Returned /\ TrimmedLen >= 8)
        => /\ calls[1] = "detect" /\ calls[2] = "verify"
           /\ final.verification_result # None
           /\ final.should_continue = FALSE

\* C2: run_verification_workflow never lets an exception out: whatever the
\* claim and whatever fails, it returns a state record holding every field.
C2_NeverRaises ==
    entry = "workflow"
        => /\ pc # "raised"
           /\ (pc = "returned" => DOMAIN final = StateFields /\ final.claim = claim)
C2_Witness ==
    /\ Returned /\ step = RecursionLimit
    /\ HasSystemMessage(final, "Workflow execution failed with error: ")

\* C3: when detect fails the detect node has run exactly once and is not
\* entered again, and the verify node does not run.
C3_FailedDetectRunsOnce ==
    DetectionFailed => Count(calls, "detect") = 1 /\ Count(calls, "verify") = 0

\* C4: when detection fails the returned state has no verification result,
\* should_continue false, and the system message of the detect step in its
\* messages.
C4_DetectMessageReturned ==
    (Returned /\ DetectionFailed)
        => /\ final.verification_result = None
           /\ final.should_continue = FALSE
           /\ HasSystemMessage(final, "Detection failed with error: ")

\* C5: every returned state has a verification result or at least one system
\* message telling the failure.
C5_ResultOrMessage ==
    Returned
        => \/ final.verification_result # None
           \/ \E p \in FailurePrefixes : HasSystemMessage(final, p)
C5_Witness ==
    /\ Returned /\ final.verification_result = None
    /\ HasSystemMessage(final, "Verification failed with error: ")

\* C6: for a claim of fewer than 8 trimmed characters (empty and missing
\* included) every run of detect fails with the validation error, and no
\* similarity search, feed call, reasoning call or verify step happens.
C6_ShortClaimStopsAtDetect ==
    (entry = "workflow" /\ TrimmedLen < 8)
        => /\ \A i \in DOMAIN calls : calls[i] = "detect"
           /\ (Count(calls, "detect") > 0
                 => /\ state.detection_result = None
                    /\ state.messages[Len(state.messages)]
                         = SystemMessage("Detection failed with error: ", ValueError))
C6_Witness ==
    /\ entry = "workflow" /\ TrimmedLen < 8 /\ Len(ClaimText) >= 8
    /\ Count(calls, "detect") > 0

\* C7: without a reasoning client verify_claim returns verdict unverified,
\* confidence 0.3 and rationale "Verification service unavailable" for every
\* claim and evidence, and makes no reasoning call.
C7_AbsentClient ==
    groq_client = None
        => /\ Count(calls, "reason") = 0
           /\ (result # None
                 => /\ result.verdict = Unverified
                    /\ result.confidence = 300
                    /\ result.rationale = ServiceUnavailable
                    /\ output = None)
C7_Witness ==
    groq_client = None /\ result # None /\ result.evidence # <<>>

\* the label occurs in the output, in any letter case
HasLabel(text, label) == Contains(Lower(text), Lower(label))

\* C8: in a reasoning output each missing field takes its own default, whatever
\* the other two: no VERDICT gives unverified, no CONFIDENCE gives 0.5, no
\* REASON gives "Analysis completed".
C8_MissingFieldDefaults ==
    (result # None /\ output # None /\ output.kind = "text")
        => /\ ~HasLabel(output.text, VerdictLabel) => result.verdict = Unverified
           /\ ~HasLabel(output.text, ConfidenceLabel) => result.confidence = 500
           /\ ~HasLabel(output.text, ReasonLabel) => result.rationale = AnalysisCompleted
C8_Witness ==
    /\ result # None /\ output # None /\ output.kind = "text"
    /\ HasLabel(output.text, VerdictLabel) /\ result.verdict # Unverified
    /\ ~HasLabel(output.text, ConfidenceLabel) /\ result.confidence = 500
    /\ HasLabel(output.text, ReasonLabel) /\ result.rationale # AnalysisCompleted

\* C9: when the reasoning call raises or its response cannot be read,
\* verify_claim still returns: verdict unverified, confidence 0.3, rationale
\* "Service error", with the aggregated evidence attached.
C9_ServiceError ==
    (groq_client # None /\ output # None /\ output.kind # "text")
        => /\ pc \in {"done", "returned"}
           /\ result # None
           /\ result.verdict = Unverified
           /\ result.confidence = 300
           /\ result.rationale = ServiceError
           /\ result.evidence = Take(evidence, 20)
C9_Witness ==
    /\ output = NoContent /\ result # None /\ result.evidence # <<>>

Retrievals == {"search", "feed"}

\* C10: with a client, one verification request makes exactly one reasoning
\* call, after every retrieval call has returned or failed, and never a second
\* one after an error.
C10_OneReasoningCall ==
    /\ Count(calls, "reason") <= 1
    /\ (result # None /\ groq_client # None => Count(calls, "reason") = 1)
    /\ \A i \in DOMAIN calls :
         calls[i] = "reason"
           => /\ \A j \in DOMAIN calls : calls[j] \in Retrievals => j < i
              /\ Count(calls, "feed") = 1
              /\ faiss_manager # None
                   => Count(calls, "search") = Len(all_queries(ClaimText))
C10_Witness ==
    /\ output = Raised /\ pc = "done"
    /\ Count(calls, "reason") = 1 /\ Count(calls, "search") > 5

\* C11: the confidence of every VerificationResult that verify_claim returns
\* lies between 0 and 1 (0 and 1000 thousandths), whatever text the reasoning
\* call returned.
C11_ConfidenceInUnitInterval ==
    result # None => result.confidence \in 0..1000

\* C12: the verdict of every VerificationResult that verify_claim returns is
\* one of true, false, mixed, unverified in lower case, on every reasoning
\* output and every failure path.
C12_VerdictEnumerated ==
    result # None => result.verdict \in VerdictWords \cup {Unverified}

\* the identity key of an evidence item or of a retrieved document: its url
\* if not empty, otherwise its title
ItemKey(x) == IF x.url # EmptyStr THEN x.url ELSE x.title

\* C15: no two items of the aggregated evidence have the same identity key,
\* across the results of all queries and across the feed items.
C15_UniqueIdentityKeys ==
    \A i, j \in DOMAIN evidence :
        i # j => ItemKey(evidence[i]) # ItemKey(evidence[j])

\* the k-th document of a retrieval was open to acceptance: not over the score
\* cutoff, and no item of the same result list failed to build up to it
Admissible(e, k) ==
    e.kind = "search"
        => /\ e.docs[k].score <= 90
           /\ \A m \in 1..k : ~(e.docs[m].url # EmptyStr /\ Len(e.docs[m].url) < 3)

\* C16: a retrieved item is dropped as a duplicate only if an earlier accepted
\* item has its identity key: every document a retrieval returned (and that was
\* open to acceptance) has an item with its identity key in the evidence held
\* after that retrieval; so two feed items without url and with different
\* titles are both kept.
C16_DroppedOnlyIfDuplicate ==
    \A h \in DOMAIN retrieved :
        LET e == retrieved[h] IN
        ~e.raised
            => \A k \in DOMAIN e.docs :
                 Admissible(e, k)
                    => \E i \in 1..e.n : ItemKey(evidence[i]) = ItemKey(e.docs[k])

\* the evidence aggregation leaves when it runs alone over the retrievals of h
RECURSIVE AggregateOf(_, _, _)
AggregateOf(h, ev, sn) ==
    IF h = <<>> THEN ev
    ELSE LET e == Head(h)
             r == IF e.raised THEN [evidence |-> ev, seen |-> sn]
                  ELSE IF e.kind = "search" THEN ProcessResults(e.docs, ev, sn)
                  ELSE ProcessFeed(e.docs, ev, sn)
         IN  AggregateOf(Tail(h), r.evidence, r.seen)

\* the deduplication rule run over an evidence list: an item whose key (url
\* or title for a dataset item, url for a feed item) was met before is dropped
RuleKey(item) == IF item.origin = "dataset" THEN ItemKey(item) ELSE item.url
RECURSIVE Deduplicated(_, _)
Deduplicated(items, sn) ==
    IF items = <<>> THEN <<>>
    ELSE IF RuleKey(Head(items)) \in sn THEN Deduplicated(Tail(items), sn)
    ELSE <<Head(items)>> \o Deduplicated(Tail(items), sn \cup {RuleKey(Head(items))})

\* C17: deduplication is idempotent: when a query returns the results the
\* query before it returned, the evidence does not change, and the
\* deduplication rule run again over the evidence leaves it as it is.
C17_DedupIdempotent ==
    /\ \A h \in 1..(Len(retrieved) - 1) :
          ( /\ retrieved[h].kind = "search" /\ ~retrieved[h].raised
            /\ retrieved[h + 1].kind = "search" /\ ~retrieved[h + 1].raised
            /\ retrieved[h + 1].docs = retrieved[h].docs )
              => retrieved[h + 1].n = retrieved[h].n
    /\ Deduplicated(evidence, {}) = evidence

AllRaised == \A h \in DOMAIN retrieved : retrieved[h].raised
Aggregated == pc \in {"reason", "done"}

\* C18: a retrieval call that raises never aborts the aggregation: every
\* query and the feed are still called, the evidence is what the calls that
\* returned give on their own, it is empty when every call raised, and
\* verify_claim returns a result carrying it.
C18_NeverAborts ==
    /\ evidence = AggregateOf(retrieved, <<>>, {})
    /\ Aggregated
          => /\ Len(retrieved) = Len(all_queries(ClaimText)) + 1
             /\ AllRaised => evidence = <<>>
    /\ pc = "done" => result # None /\ result.evidence = SubSeq(evidence, 1, Min(Len(evidence), 20))
C18_Witness ==
    /\ pc = "done" /\ result.evidence # <<>>
    /\ retrieved[1].raised /\ ~retrieved[2].raised /\ retrieved[3].raised
    /\ retrieved[Len(retrieved)].kind = "feed" /\ retrieved[Len(retrieved)].raised
C18_WitnessAllRaised ==
    pc = "done" /\ AllRaised /\ faiss_manager = None /\ result.evidence = <<>>

\* the documents the retrievals returned, in call order, with their origin
RECURSIVE Returned_docs(_)
Returned_docs(h) ==
    IF h = <<>> THEN <<>>
    ELSE [k \in DOMAIN Head(h).docs |->
             [origin |-> IF Head(h).kind = "search" THEN "dataset" ELSE "rss",
              url |-> Head(h).docs[k].url, title |-> Head(h).docs[k].title]]
         \o Returned_docs(Tail(h))

\* items follows docs: each item is a document of docs, in the order of docs
RECURSIVE Follows(_, _)
Follows(items, docs) ==
    IF items = <<>> THEN TRUE
    ELSE IF docs = <<>> THEN FALSE
    ELSE IF /\ Head(items).origin = Head(docs).origin
            /\ Head(items).url = Head(docs).url
            /\ Head(items).title = Head(docs).title
         THEN Follows(Tail(items), Tail(docs))
         ELSE Follows(items, Tail(docs))

\* C19: the evidence of a VerificationResult has at most 20 items and is a
\* prefix of the aggregation order: the similarity-search results in the order
\* of the queries and of each query's results, then the feed results, no feed
\* item before a similarity-search item.
C19_CappedPrefixInOrder ==
    /\ Follows(evidence, Returned_docs(retrieved))
    /\ \A i, j \in DOMAIN evidence :
          (i < j /\ evidence[i].origin = "rss") => evidence[j].origin = "rss"
    /\ result # None
          => /\ Len(result.evidence) <= 20
             /\ Len(result.evidence) <= Len(evidence)
             /\ \A i \in DOMAIN result.evidence : result.evidence[i] = evidence[i]
C19_Witness ==
    /\ result # None /\ Len(evidence) > 20 /\ Len(result.evidence) = 20
    /\ result.evidence[1].origin = "dataset" /\ result.evidence[20].origin = "rss"

\* the DetectionResults that calls of detect returned
Detected == {detections[i].outcome.value : i \in {j \in DOMAIN detections : detections[j].outcome.ok}}

\* C13: every DetectionResult has risk_score in [0.10, 1.00] and confidence in
\* [0.35, 0.95], for every claim text and for every combination of claim
\* type, risk signals, entity count, evidence types and temporal indicators
\* (in thousandths).
C13_ScoresInRange ==
    /\ \A d \in Detected : d.risk_score \in 100..1000 /\ d.confidence \in 350..950
    /\ scored # None => scored.risk_score \in 100..1000 /\ scored.confidence \in 350..950
C13_Witness ==
    /\ scored # None
    /\ scored.base_confidence = 850 /\ scored.evidence_bonus = 250 /\ scored.confidence = 950
    /\ scored.risk_score = 1000

\* C14: in every DetectionResult search_queries has at most 8 entries,
\* entities at most 5, keywords at most 8, quantitative_elements at most 5,
\* temporal_indicators at most 3 and supporting_evidence_types at most 3.
C14_ListsCapped ==
    \A d \in Detected :
        /\ Len(d.search_queries) <= 8
        /\ Len(d.entities) <= 5
        /\ Len(d.keywords) <= 8
        /\ Len(d.quantitative_elements) <= 5
        /\ Len(d.temporal_indicators) <= 3
        /\ Len(d.supporting_evidence_types) <= 3
C14_Witness ==
    \E d \in Detected :
        /\ d.claim = CapsClaim
        /\ Len(d.search_queries) = 8
        /\ Len(d.entities) = 5
        /\ Len(d.keywords) = 8
        /\ Len(d.quantitative_elements) = 5
        /\ Len(d.temporal_indicators) = 3
        /\ Len(d.supporting_evidence_types) = 3

\* C20: detection is deterministic: two calls of detect on the same claim, in
\* one process or in two, return the same outcome.
C20_DetectDeterministic ==
    \A i, j \in DOMAIN detections : detections[i].outcome = detections[j].outcome

\* C23: for the claim "Is the airport in Delhi really closed?" detect returns
\* claim_type 'question', domain 'travel' and the structured action
\* 'airport closed'.
C23_AirportExample ==
    \A d \in Detected :
        d.claim = AirportClaim =>
            /\ d.claim_type = "question"
            /\ d.domain = "travel"
            /\ d.structured_claim.action = Str(<<"a","i","r","p","o","r","t"," ","c","l","o","s","e","d">>)

\* the signals of the complexity rule, read in the claim of a DetectionResult
HasConjunction(d) == SearchFrom(Conjunction, Lower(d.claim), 1) # None
HasClauses(d) == SearchFrom(ClauseBreak, d.claim, 1) # None

\* C24: claim_complexity is 'simple' exactly when word_count <= 15,
\* entity_count <= 2 and there is no multi-clause signal, no conjunction and
\* no quantitative element; otherwise 'moderate' exactly when word_count <= 40,
\* entity_count <= 4 and there is no conjunction; otherwise 'complex'.
C24_ComplexityRule ==
    \A d \in Detected :
        d.claim_complexity =
            IF /\ WordCount(d.claim) <= 15 /\ Len(d.entities) <= 2
               /\ ~HasClauses(d) /\ ~HasConjunction(d) /\ d.quantitative_elements = <<>>
            THEN "simple"
            ELSE IF WordCount(d.claim) <= 40 /\ Len(d.entities) <= 4 /\ ~HasConjunction(d)
            THEN "moderate"
            ELSE "complex"

\* C25: the risk score is 0.30, plus 0.10 for a question, 0.20 for a numerical
\* claim, 0.15 for an action claim, plus 0.25 with an emergency keyword, plus
\* 0.15 with a number of 3 or more digits, minus 0.05 for a claim longer than
\* 240 characters, plus 0.10 with a quantitative element, clamped to
\* [0.10, 1.00], for every combination of the signals; for the claim about
\* 150 cases it is 1.00 (in thousandths).
C25_RiskFormula ==
    /\ scored # None =>
          LET sum == 300
                     + (CASE scored.claim_type = "question" -> 100
                          [] scored.claim_type = "numerical_claim" -> 200
                          [] scored.claim_type = "action_claim" -> 150
                          [] scored.claim_type = "narrative_claim" -> 0)
                     + (IF scored.emergency THEN 250 ELSE 0)
                     + (IF scored.big_number THEN 150 ELSE 0)
                     - (IF scored.long THEN 50 ELSE 0)
                     + (IF scored.quantitative THEN 100 ELSE 0)
          IN  scored.risk_score = (IF sum < 100 THEN 100 ELSE IF sum > 1000 THEN 1000 ELSE sum)
    /\ \A d \in Detected : d.claim = OutbreakClaim => d.risk_score = 1000
C25_Witness ==
    /\ scored # None /\ scored.long /\ scored.claim_type = "narrative_claim"
    /\ ~scored.emergency /\ ~scored.big_number /\ ~scored.quantitative
    /\ scored.risk_score = 250
C25_WitnessExample ==
    \E d \in Detected : d.claim = OutbreakClaim /\ d.risk_score = 1000

\* the text two queries share when they are equal ignoring case and the white
\* space around them
Normalized(q) == Lower(Strip(q))

\* the candidates of a DetectionResult before the duplicates are removed: the
\* base queries, then the queries of the evidence types
Candidates(d) ==
    _generate_search_queries(d.claim, d.structured_claim, d.entities, d.domain)
    \o _generate_contextual_search_queries(d.structured_claim, d.supporting_evidence_types)
FirstSeen(cands, q) == MinOf({k \in DOMAIN cands : Normalized(cands[k]) = Normalized(q)})

\* C26: search_queries starts with the trimmed raw claim, holds no two entries
\* that are equal ignoring case and surrounding white space, and keeps the
\* candidates in first-seen order, base queries before evidence-type queries,
\* up to the cut to 8.
C26_QueriesDeduplicated ==
    \A i \in DOMAIN detections :
        detections[i].outcome.ok =>
            LET d == detections[i].outcome.value
                q == d.search_queries
                cands == Candidates(d)
                texts == {Normalized(cands[k]) : k \in DOMAIN cands}
            IN  /\ q # <<>> /\ q[1] = Strip(claim.str)
                /\ \A a, b \in DOMAIN q : a # b => Normalized(q[a]) # Normalized(q[b])
                /\ \A a \in DOMAIN q : \E k \in DOMAIN cands : Strip(cands[k]) = q[a]
                /\ \A a, b \in DOMAIN q : a < b => FirstSeen(cands, q[a]) < FirstSeen(cands, q[b])
                /\ Len(q) = Min(8, Cardinality(texts))
                /\ \A a \in DOMAIN q, k \in DOMAIN cands :
                       k < FirstSeen(cands, q[a]) => \E b \in DOMAIN q : Normalized(q[b]) = Normalized(cands[k])
C26_Witness ==
    \E d \in Detected :
        /\ d.claim = ShoutClaim
        /\ d.structured_claim.subject # None /\ d.structured_claim.action # None
        /\ Normalized(Spaced(d.structured_claim.subject.str, d.structured_claim.action.str)) = Normalized(d.claim)
        /\ Spaced(d.structured_claim.subject.str, d.structured_claim.action.str) # d.claim
        /\ Len(d.search_queries) = 4
C26_WitnessCut ==
    \E d \in Detected :
        Len(d.search_queries) = 8 /\ Cardinality({Normalized(Candidates(d)[k]) : k \in DOMAIN Candidates(d)}) > 8

\* the response with its VERDICT:, CONFIDENCE: and REASON: labels, written in
\* any letter case, put in upper case
UpperChar(c) ==
    IF \E i \in 1..26 : LowerChars[i] = c
    THEN UpperChars[CHOOSE i \in 1..26 : LowerChars[i] = c]
    ELSE c
InLabel(text, i) ==
    \E label \in {VerdictLabel, ConfidenceLabel, ReasonLabel} :
        \E a \in (i - Len(label) + 1)..i :
            /\ a >= 1 /\ a + Len(label) - 1 <= Len(text)
            /\ Lower(SubSeq(text, a, a + Len(label) - 1)) = Lower(label)
UpperLabels(text) == [i \in DOMAIN text |-> IF InLabel(text, i) THEN UpperChar(text[i]) ELSE text[i]]

\* C27: the reasoning response is parsed case-insensitively for all three
\* fields: a response whose VERDICT, CONFIDENCE or REASON label is in lower or
\* mixed case gives the verdict, confidence and rationale of the same response
\* with upper-case labels.
C27_LabelsCaseInsensitive ==
    (result # None /\ output # None /\ output.kind = "text")
        => LET upper == ParseOutput(UpperLabels(output.text))
           IN  /\ result.verdict = upper.verdict
               /\ result.confidence = Round3(upper.confidence)
               /\ result.rationale = upper.reason

\* the places of the evidence that the h-th retrieval filled
Admitted(h) == ((IF h = 1 THEN 0 ELSE retrieved[h - 1].n) + 1)..retrieved[h].n
SameDocument(item, doc) == item.url = doc.url /\ item.title = doc.title

\* C28: every similarity-search result with a score over 0.90 is discarded:
\* each dataset item of the evidence was returned with a score of at most
\* 0.90 by the query that admitted it, no result over 0.90 is admitted, and a
\* result with the score 0.90 itself is accepted (scores in hundredths).
C28_ScoreCutoff ==
    /\ \A p \in DOMAIN evidence :
          evidence[p].origin = "dataset"
             => \E h \in DOMAIN retrieved :
                   /\ retrieved[h].kind = "search" /\ p \in Admitted(h)
                   /\ \E k \in DOMAIN retrieved[h].docs :
                         /\ SameDocument(evidence[p], retrieved[h].docs[k])
                         /\ retrieved[h].docs[k].score <= 90
    /\ \A h \in DOMAIN retrieved :
          retrieved[h].kind = "search"
             => \A k \in DOMAIN retrieved[h].docs :
                   /\ retrieved[h].docs[k].score > 90
                         => ~\E p \in Admitted(h) : SameDocument(evidence[p], retrieved[h].docs[k])
                   /\ (retrieved[h].docs[k].score = 90 /\ Admissible(retrieved[h], k))
                         => \E p \in 1..retrieved[h].n :
                               /\ evidence[p].origin = "dataset"
                               /\ ItemKey(evidence[p]) = ItemKey(retrieved[h].docs[k])
C28_Witness ==
    /\ \E h \in DOMAIN retrieved :
          /\ retrieved[h].kind = "search" /\ retrieved[h].docs = <<D3, D1>>
          /\ Admitted(h) # {}
          /\ \A p \in Admitted(h) : ~SameDocument(evidence[p], D3)
    /\ \E h \in DOMAIN retrieved :
          /\ retrieved[h].kind = "search" /\ retrieved[h].docs = <<D1, D2>>
          /\ \E p \in Admitted(h) : SameDocument(evidence[p], D2)

\* the keys aggregation has marked as seen come from the items stored
StoredKeys == {RuleKey(evidence[p]) : p \in DOMAIN evidence}

\* C30: during aggregation every key in the seen set belongs to an item of the
\* evidence list: an exception raised while one item is built never leaves the
\* item's key marked as seen with no item stored.
C30_SeenKeysStored ==
    \A key \in seen : key \in StoredKeys

\* C21: a transition function never changes the state it is given: after a
\* call of detect_claim, verify_claim, update_messages, set_detection_result
\* or set_verification_result the state dict passed in and its messages list
\* are as they were before the call, and what is returned is a dict that did
\* not exist before the call
C21_InputStateKept ==
    call # None =>
        /\ heap[call.arg] = call.before[call.arg]
        /\ heap[MessagesOf(call.before, call.arg)] = call.before[MessagesOf(call.before, call.arg)]
        /\ call.ret \notin DOMAIN call.before
        /\ heap[call.ret].kind = "dict"
\* the failure branch of a node was taken on a state that already held a
\* message: the state returned holds one message more than the state given
C21_Witness ==
    /\ call # None /\ call.fn \in {"detect_claim", "verify_claim"}
    /\ heap[call.arg].items.should_continue /\ ~heap[call.ret].items.should_continue
    /\ heap[MessagesOf(heap, call.arg)].items # <<>>
    /\ Len(heap[MessagesOf(heap, call.ret)].items) = Len(heap[MessagesOf(heap, call.arg)].items) + 1
\* detect_claim succeeded on a state that held a message
C21_WitnessSuccess ==
    /\ call # None /\ call.fn = "detect_claim"
    /\ heap[call.ret].items.detection_result # None
    /\ heap[call.ret].items.next_node = Str("verify")
    /\ heap[MessagesOf(heap, call.arg)].items # <<>>

\* C22: voice output never overlaps: at most one call of speak is between
\* the start and the end of its speech, and while a call is speaking the
\* manager is marked as speaking, so that a call made meanwhile returns False
Speaking == {t \in DOMAIN vpc : vpc[t] = "speaking"}
C22_NoOverlap ==
    /\ Cardinality(Speaking) <= 1
    /\ Speaking # {} => is_speaking

\* C29: explain returns an ExplanationResult, and never raises, for every
\* VerificationResult verify_claim produced, one whose evidence holds items
\* of the feed (origin "rss") included; the result carries the verdict of the
\* VerificationResult
C29_ExplainReturns ==
    explained # None =>
        /\ explained.ok
        /\ explained.value.verdict = result.verdict

====
